---- MODULE Spec2Model ----
(***************************************************************************)
(* A model of the error-tolerant PEG parser of parser-ng                   *)
(* (src/parser-ng/src/parser/mod.rs).                                      *)
(*                                                                         *)
(* The parser is a record `p` (the fields of ParserImpl plus the state of  *)
(* its TokenStream and SyntaxStream); every method of ParserImpl is an     *)
(* operator from parser records to parser records, and every grammar rule  *)
(* is the operator of the same name, composed from the combinators exactly *)
(* as in the source.  A call of the iterator (`Events::next`) is one       *)
(* action of the state machine.                                            *)
(***************************************************************************)
EXTENDS Integers, Sequences, FiniteSets, TLC

VARIABLES
    parser,       \* ParserImpl (with its token stream and syntax stream)
    whitespaces,  \* Parser::whitespaces / Events::whitespaces
    events,       \* history: the events the iterator has returned so far
    rule,         \* the ast::Rule handed to the linters
    linted,       \* the last linter that checked `rule`, and its LinterResult
    math          \* the last call made into the math module, and its result

vars == <<parser, whitespaces, events, rule, linted, math>>

\* The parser's part of the state, and the linters' part.
parser_vars == <<parser, whitespaces, events>>
lint_vars == <<rule, linted>>
math_vars == <<math>>

\* No rule has been handed to a linter, and no linter has run.
NoRule == [identifier |-> [name |-> <<>>, span |-> <<0, 0>>], meta |-> <<>>]
NoCheck == [linter |-> [type |-> "None"], result |-> [type |-> "None"]]
NotLinting == rule = NoRule /\ linted = NoCheck

\* No call into the math module.
NoMath == [op |-> "None"]
NotComputing == math = NoMath

(***************************************************************************)
(* Tokens.  The tokenizer is not part of the modelled sources; a source    *)
(* text is a sequence of lexemes, one canonical spelling per token id.     *)
(***************************************************************************)

\* TLA+ strings cannot hold the character U+0060 (backtick); BQ stands for it
\* in every message and description below.
BQ == "'"

\* The canonical spelling of each token id.
Text ==
    [ IMPORT_KW |-> "import", RULE_KW |-> "rule", PRIVATE_KW |-> "private",
      GLOBAL_KW |-> "global", META_KW |-> "meta", STRINGS_KW |-> "strings",
      CONDITION_KW |-> "condition", TRUE_KW |-> "true", FALSE_KW |-> "false",
      AND_KW |-> "and", OR_KW |-> "or", NOT_KW |-> "not",
      DEFINED_KW |-> "defined", AT_KW |-> "at", IN_KW |-> "in",
      OF_KW |-> "of", FOR_KW |-> "for", THEM_KW |-> "them",
      ALL_KW |-> "all", NONE_KW |-> "none", ANY_KW |-> "any",
      FILESIZE_KW |-> "filesize", ENTRYPOINT_KW |-> "entrypoint",
      ASCII_KW |-> "ascii", WIDE_KW |-> "wide", NOCASE_KW |-> "nocase",
      FULLWORD_KW |-> "fullword", BASE64_KW |-> "base64",
      BASE64WIDE_KW |-> "base64wide", XOR_KW |-> "xor",
      CONTAINS_KW |-> "contains", ICONTAINS_KW |-> "icontains",
      STARTSWITH_KW |-> "startswith", ISTARTSWITH_KW |-> "istartswith",
      ENDSWITH_KW |-> "endswith", IENDSWITH_KW |-> "iendswith",
      MATCHES_KW |-> "matches",
      L_BRACE |-> "{", R_BRACE |-> "}", L_PAREN |-> "(", R_PAREN |-> ")",
      L_BRACKET |-> "[", R_BRACKET |-> "]", COLON |-> ":", COMMA |-> ",",
      DOT |-> ".", EQUAL |-> "=", HYPHEN |-> "-", PLUS |-> "+",
      ASTERISK |-> "*", BACKSLASH |-> "\\", PERCENT |-> "%", SHL |-> "<<",
      SHR |-> ">>", AMPERSAND |-> "&", PIPE |-> "|", CARET |-> "^",
      TILDE |-> "~", EQ |-> "==", NE |-> "!=", LE |-> "<=", LT |-> "<",
      GE |-> ">=", GT |-> ">",
      IDENT |-> "r", PATTERN_IDENT |-> "$a", PATTERN_COUNT |-> "#a",
      PATTERN_OFFSET |-> "@a", PATTERN_LENGTH |-> "!a",
      INTEGER_LIT |-> "66", FLOAT_LIT |-> "1.5", STRING_LIT |-> "\"x\"",
      REGEXP |-> "/x/", HEX_BYTE |-> "66",
      WHITESPACE |-> " ", NEWLINE |-> "\n", COMMENT |-> "//c",
      UNKNOWN |-> "?" ]

\* Token::is_trivia.
TriviaIds == {"WHITESPACE", "NEWLINE", "COMMENT"}

is_trivia(token) == token.id \in TriviaIds

\* The descriptions of the token ids that are not shown as their spelling.
ClassDescription ==
    [ IDENT |-> "identifier", PATTERN_IDENT |-> "pattern identifier",
      PATTERN_COUNT |-> "pattern count", PATTERN_OFFSET |-> "pattern offset",
      PATTERN_LENGTH |-> "pattern length", INTEGER_LIT |-> "integer",
      FLOAT_LIT |-> "float", STRING_LIT |-> "string literal",
      REGEXP |-> "regular expression", HEX_BYTE |-> "byte",
      WHITESPACE |-> "whitespace", NEWLINE |-> "newline",
      COMMENT |-> "comment", UNKNOWN |-> "unknown token" ]

\* TokenId::description.
description(id) ==
    IF id \in DOMAIN ClassDescription
    THEN ClassDescription[id]
    ELSE BQ \o Text[id] \o BQ

\* SyntaxKind::token_id: the token id behind a syntax kind.  Several
\* syntax kinds share one token (MINUS, SUB and HYPHEN are all "-").
SharedTokenId ==
    [ MINUS |-> "HYPHEN", SUB |-> "HYPHEN", ADD |-> "PLUS",
      MUL |-> "ASTERISK", DIV |-> "BACKSLASH", MOD |-> "PERCENT",
      BITWISE_AND |-> "AMPERSAND", BITWISE_OR |-> "PIPE",
      BITWISE_XOR |-> "CARET", BITWISE_NOT |-> "TILDE" ]

token_id(kind) ==
    IF kind \in DOMAIN SharedTokenId THEN SharedTokenId[kind] ELSE kind

\* Option::None for tokens, for syntax kinds and for descriptions.
NoToken == [id |-> "<none>", span |-> <<0, 0>>]
NoKind == "<none>"
NoDescription == "<none>"

\* Span::start.
start(span) == span[1]

\* The tokenizer in NORMAL mode: lexeme i of `src` becomes a token whose
\* span starts where the previous one ended.
Tokenize(src) ==
    LET toks[i \in 0..Len(src)] ==
            IF i = 0 THEN <<>>
            ELSE LET done == toks[i - 1]
                     from == IF done = <<>> THEN 0 ELSE done[i - 1].span[2]
                 IN Append(done, [id |-> src[i],
                                  span |-> <<from, from + Len(Text[src[i]])>>])
    IN toks[Len(src)]

\* Length of the source text of a token sequence.
SourceLen(tokens) ==
    IF tokens = <<>> THEN 0 ELSE tokens[Len(tokens)].span[2]

\* The tokenizer's modes.  The parser enters the hex modes; the tokenizer
\* leaves HEX_PATTERN after "}" and HEX_JUMP after "]".
ModeAfter(mode, id) ==
    IF mode = "HEX_PATTERN" /\ id = "R_BRACE" THEN "NORMAL"
    ELSE IF mode = "HEX_JUMP" /\ id = "R_BRACKET" THEN "HEX_PATTERN"
    ELSE mode

\* What the tokenizer makes of a lexeme in a mode: two hex digits are a
\* HEX_BYTE inside a hex pattern and an INTEGER_LIT elsewhere.
ModeView(mode, id) ==
    IF mode = "HEX_PATTERN" /\ id = "INTEGER_LIT" THEN "HEX_BYTE" ELSE id

\* The parser stopped for good: `stopped` is "hang" in a loop that never
\* ends and the panic's message after a panic.
Dead(p) == p.stopped # ""

\* panic!(message), unreachable!() and the like.
panic(p, message) == [p EXCEPT !.stopped = "panic: " \o message]

\* A loop that never ends.
hang(p) == [p EXCEPT !.stopped = "hang"]

(***************************************************************************)
(* TokenStream.                                                            *)
(***************************************************************************)

\* TokenStream::has_more.
has_more(p) == p.pos < Len(p.tokens)

\* TokenStream::current_token_index.
current_token_index(p) == p.pos

\* TokenStream::peek_token(i): the token i places ahead, not consumed.
peek_token(p, i) ==
    IF p.pos + i + 1 > Len(p.tokens) THEN NoToken
    ELSE IF p.mode = "NORMAL" THEN p.tokens[p.pos + i + 1]
    ELSE LET m[j \in 0..i] ==
                 IF j = 0 THEN p.mode
                 ELSE ModeAfter(m[j - 1],
                                ModeView(m[j - 1], p.tokens[p.pos + j].id))
             t == p.tokens[p.pos + i + 1]
         IN [id |-> ModeView(m[i], t.id), span |-> t.span]

\* TokenStream::next_token: moves past the next token (the caller has
\* peeked it).
next_token(p) ==
    IF ~has_more(p) THEN p
    ELSE [p EXCEPT !.pos = @ + 1,
                   !.mode = ModeAfter(@, peek_token(p, 0).id)]

\* TokenStream::enter_hex_pattern_mode / enter_hex_jump_mode.
tokens_enter_mode(p, mode) == [p EXCEPT !.mode = mode]

(***************************************************************************)
(* SyntaxStream: the buffer of events, with the positions of the Begin     *)
(* events that are still open.                                             *)
(***************************************************************************)

Begin(kind) == [type |-> "Begin", kind |-> kind]
End(kind) == [type |-> "End", kind |-> kind]
EndWithError(kind) == [type |-> "EndWithError", kind |-> kind]
TokenEvent(kind, span) == [type |-> "Token", kind |-> kind, span |-> span]
ErrorEvent(message, span) ==
    [type |-> "Error", message |-> message, span |-> span]

\* SyntaxStream::begin.
output_begin(p, kind) ==
    [p EXCEPT !.output = Append(@, Begin(kind)),
              !.open_begins = Append(@, Len(p.output) + 1)]

\* SyntaxStream::end.  Closing a node that was never opened is a panic.
output_end(p) ==
    IF p.open_begins = <<>> THEN panic(p, "end without begin")
    ELSE LET pos == p.open_begins[Len(p.open_begins)]
         IN [p EXCEPT !.output = Append(@, End(p.output[pos].kind)),
                      !.open_begins = SubSeq(@, 1, Len(@) - 1)]

\* SyntaxStream::end_with_error: the open Begin becomes Begin(ERROR), its
\* children stay, and the node is closed by EndWithError.
output_end_with_error(p) ==
    IF p.open_begins = <<>> THEN panic(p, "end without begin")
    ELSE LET pos == p.open_begins[Len(p.open_begins)]
         IN [p EXCEPT !.output =
                          Append([@ EXCEPT ![pos] = Begin("ERROR")],
                                 EndWithError("ERROR")),
                      !.open_begins = SubSeq(@, 1, Len(@) - 1)]

\* SyntaxStream::push_token.
push_token(p, kind, span) ==
    [p EXCEPT !.output = Append(@, TokenEvent(kind, span))]

\* SyntaxStream::push_error.
push_error(p, message, span) ==
    [p EXCEPT !.output = Append(@, ErrorEvent(message, span))]

\* SyntaxStream::truncate: drops every event after the bookmark.
output_truncate(p, len) ==
    [p EXCEPT !.output = SubSeq(@, 1, len),
              !.open_begins = SelectSeq(@, LAMBDA i: i <= len)]

\* SyntaxStream::pop: removes the first buffered event.
output_pop(p) == [p EXCEPT !.output = Tail(@)]

(***************************************************************************)
(* ParserImpl: the parser's private API.                                   *)
(***************************************************************************)

\* ParserImpl::from: the parser right after construction.  `packrat` is
\* the switch of the failure cache, TRUE in the program; `cache_hits` and
\* `stopped` are the model's own records of what happened.
NewParser(src, packrat) ==
    [ tokens |-> Tokenize(src), pos |-> 0, mode |-> "NORMAL",
      bookmarks |-> <<>>, bookmark_count |-> 0,
      output |-> <<>>, open_begins |-> <<>>,
      pending_errors |-> <<>>, expected_token_errors |-> <<>>,
      unexpected_token_errors |-> {}, cache |-> {},
      opt_depth |-> 0, not_depth |-> 0, state |-> "StartOfInput",
      packrat |-> packrat, cache_hits |-> 0, stopped |-> "",
      committed |-> 0, restores |-> 0, went_back |-> FALSE,
      item_start |-> 0, cache_inserts |-> 0, cache_audit |-> {},
      errors_dropped |-> 0, errors_kept |-> 0, bookmarks_removed |-> 0,
      bookmark_audit |-> {}, depth_audit |-> {} ]

\* ParserImpl::peek.
peek(p) == peek_token(p, 0)

\* ParserImpl::peek_non_ws: the next token that is not trivia.
peek_non_ws(p) ==
    LET rest == Len(p.tokens) - p.pos
        skip[i \in 0..rest] ==
            IF i < rest /\ is_trivia(peek_token(p, i)) THEN skip[i + 1] ELSE i
    IN peek_token(p, skip[0])

\* ParserImpl::bump.
bump(p) ==
    LET token == peek(p)
    IN IF token = NoToken THEN p
       ELSE push_token(next_token(p), token.id, token.span)

\* bookmark with a slip: the bookmark is taken behind the trivia in front
\* of the next token.
bookmark_after_trivia(p) ==
    LET rest == Len(p.tokens) - p.pos
        skip[i \in 0..rest] ==
            IF i < rest /\ is_trivia(peek_token(p, i)) THEN skip[i + 1] ELSE i
        b == [id |-> p.bookmark_count + 1,
              tokens |-> [pos |-> p.pos + skip[0], mode |-> p.mode],
              output |-> Len(p.output) + skip[0]]
    IN [bookmark |-> b,
        parser |-> [p EXCEPT !.bookmarks = Append(@, b),
                             !.bookmark_count = @ + 1]]

\* ParserImpl::bookmark: the new bookmark, and the parser that holds it.
bookmark(p) ==
    LET b == [id |-> p.bookmark_count + 1,
              tokens |-> [pos |-> p.pos, mode |-> p.mode],
              output |-> Len(p.output)]
    IN [bookmark |-> b,
        parser |-> [p EXCEPT !.bookmarks = Append(@, b),
                             !.bookmark_count = @ + 1]]

\* restore_bookmark with a slip: the output is left as it is.
restore_bookmark_tokens_only(p, b) ==
    [p EXCEPT !.pos = b.tokens.pos, !.mode = b.tokens.mode]

\* The Error events of the output behind its first `len` events.
ErrorsBehind(p, len) ==
    Len(SelectSeq(SubSeq(p.output, len + 1, Len(p.output)),
                  LAMBDA e: e.type = "Error"))

\* The bookmark is one the parser holds.
Outstanding(p, b) == \E i \in 1..Len(p.bookmarks) : p.bookmarks[i].id = b.id

\* ParserImpl::restore_bookmark.  (`restores` counts the calls made after
\* a token was committed, and `went_back` tells whether one of them has
\* moved the cursor to the left of the last committed token;
\* `errors_dropped` counts the Error events the calls have truncated and
\* `errors_kept` the calls that had an Error event in front of the bookmark;
\* `bookmark_audit` holds a restore of a bookmark that was removed.)
restore_bookmark(p, b) ==
    output_truncate([p EXCEPT !.pos = b.tokens.pos, !.mode = b.tokens.mode,
                              !.restores = IF p.committed > 0 THEN @ + 1
                                           ELSE @,
                              !.went_back = @ \/ b.tokens.pos < p.committed,
                              !.errors_dropped = @ + ErrorsBehind(p, b.output),
                              !.errors_kept =
                                  IF ErrorsBehind(p, 0) > 0 THEN @ + 1 ELSE @,
                              !.bookmark_audit =
                                  IF Outstanding(p, b) THEN @
                                  ELSE @ \cup {"restored_after_removed"}],
                    b.output)

\* ParserImpl::remove_bookmark.  (`bookmarks_removed` counts the bookmarks
\* removed, and `bookmark_audit` holds the removal of one that is not
\* there.)
remove_bookmark(p, b) ==
    [p EXCEPT !.bookmarks = SelectSeq(@, LAMBDA x: x.id # b.id),
              !.bookmarks_removed = @ + 1,
              !.bookmark_audit = IF Outstanding(p, b) THEN @
                                 ELSE @ \cup {"removed_twice"}]

\* ParserImpl::enter_hex_pattern_mode.
enter_hex_pattern_mode(p) ==
    IF Dead(p) \/ p.state = "Failure" THEN p
    ELSE tokens_enter_mode(p, "HEX_PATTERN")

\* ParserImpl::enter_hex_jump_mode.
enter_hex_jump_mode(p) ==
    IF Dead(p) \/ p.state = "Failure" THEN p
    ELSE tokens_enter_mode(p, "HEX_JUMP")

\* ParserImpl::trivia: consumes the trivia in front of the next token.
trivia(p) ==
    LET RECURSIVE eat(_)
        eat(q) == IF is_trivia(peek(q)) THEN eat(bump(q)) ELSE q
    IN IF Dead(p) \/ p.state = "Failure" THEN p ELSE eat(p)

\* ParserImpl::begin.
begin(p, kind) ==
    IF Dead(p) THEN p ELSE output_begin(trivia(p), kind)

\* ParserImpl::end.
end(p) ==
    IF Dead(p) THEN p
    ELSE IF p.state = "Failure" THEN output_end_with_error(p)
    ELSE output_end(p)

\* ParserImpl::recover.
recover(p) == IF Dead(p) THEN p ELSE [p EXCEPT !.state = "OK"]

\* ParserImpl::flush_errors.
flush_errors(p) ==
    LET errors == p.pending_errors
    IN [p EXCEPT !.output =
                     @ \o [i \in 1..Len(errors) |->
                               ErrorEvent(errors[i].message, errors[i].span)],
                 !.expected_token_errors = <<>>,
                 !.pending_errors = <<>>]

\* min_by_key in the place of max_by_key.
min_by_start(spans) ==
    CHOOSE s \in spans : \A t \in spans : start(s) <= start(t)

\* Iterator::max_by_key(|span| span.start()) over a non-empty set of spans.
\* (Two spans of one token stream never start at the same offset.)
max_by_start(spans) ==
    CHOOSE s \in spans : \A t \in spans : start(t) <= start(s)

\* itertools::join(items, ", ") of a non-empty list: the halves of the list
\* are joined, and then the two texts.
RECURSIVE join(_)
join(items) ==
    LET half == Len(items) \div 2
    IN IF Len(items) = 1 THEN items[1]
       ELSE join(SubSeq(items, 1, half)) \o ", "
                \o join(SubSeq(items, half + 1, Len(items)))

\* The source text of a span: the spelling of the token that has it.
source_text(p, span) ==
    Text[p.tokens[CHOOSE i \in 1..Len(p.tokens) : p.tokens[i].span = span].id]

\* The message handle_errors builds for a span; `expected` is the list of
\* descriptions, or <<>> for an unexpected token.
error_msg(expected, actual_token) ==
    IF expected # <<>>
    THEN LET last == expected[Len(expected)]
             all_except_last == SubSeq(expected, 1, Len(expected) - 1)
         IN IF all_except_last = <<>>
            THEN "expecting " \o last \o ", found " \o BQ \o actual_token \o BQ
            ELSE "expecting " \o join(all_except_last) \o " or " \o last
                     \o ", found " \o BQ \o actual_token \o BQ
    ELSE "unexpected " \o BQ \o actual_token \o BQ

\* handle_errors with a slip: the error goes to the output where it is
\* raised, inside optional branches too.
handle_errors_unbuffered(p) ==
    LET E == DOMAIN p.expected_token_errors
    IN IF Dead(p) \/ E = {} THEN p
       ELSE push_error([p EXCEPT !.expected_token_errors = <<>>,
                                 !.unexpected_token_errors = {}],
                       error_msg(p.expected_token_errors[max_by_start(E)],
                                 source_text(p, max_by_start(E))),
                       max_by_start(E))

\* ParserImpl::handle_errors.
handle_errors(p) ==
    IF p.opt_depth > 0 \/ Dead(p) THEN p
    ELSE LET E == DOMAIN p.expected_token_errors
             U == p.unexpected_token_errors
             drained == [p EXCEPT !.expected_token_errors = <<>>,
                                  !.unexpected_token_errors = {}]
         IN IF E = {} /\ U = {}
            THEN panic(drained, "handle_errors: unreachable")
            ELSE LET unexpected ==
                         \/ E = {}
                         \/ /\ U # {}
                            /\ start(max_by_start(U)) > start(max_by_start(E))
                     span == IF unexpected THEN max_by_start(U)
                             ELSE max_by_start(E)
                     expected == IF unexpected THEN <<>>
                                 ELSE p.expected_token_errors[span]
                 IN IF \E i \in 1..Len(p.pending_errors) :
                           p.pending_errors[i].span = span
                    THEN drained
                    ELSE [drained EXCEPT !.pending_errors =
                             Append(@, [span |-> span,
                                        message |->
                                            error_msg(expected,
                                                      source_text(p, span))])]

\* TokenSet::contains: the first syntax kind of the set whose token is the
\* given one, or None.  A token set is the sequence of its syntax kinds.
contains(set, token) ==
    LET hits == SelectSeq(set, LAMBDA k: token_id(k) = token.id)
    IN IF hits = <<>> THEN NoKind ELSE hits[1]

\* IndexSet::extend: appends the items that are not in the set yet, each
\* one once.
extend(set, items) ==
    LET indexed == [i \in 1..Len(items) |-> [index |-> i, item |-> items[i]]]
        is_new(x) == /\ \A k \in 1..Len(set) : set[k] # x.item
                     /\ \A k \in 1..(x.index - 1) : items[k] # x.item
        new == SelectSeq(indexed, is_new)
    IN set \o [i \in 1..Len(new) |-> new[i].item]

\* descriptions with a slip: the first token of the set alone.
descriptions_first(set) == <<description(token_id(set[1]))>>

\* TokenSet::token_ids, mapped to their descriptions.
descriptions(set) == [i \in 1..Len(set) |-> description(token_id(set[i]))]

\* record_expected with a slip: the entry of the span is replaced, not
\* extended.
record_expected_replacing(p, span, items) ==
    LET map == p.expected_token_errors
    IN IF span \in DOMAIN map
       THEN [p EXCEPT !.expected_token_errors[span] = extend(<<>>, items)]
       ELSE [p EXCEPT !.expected_token_errors =
                          map @@ (span :> extend(<<>>, items))]

\* expected_token_errors.entry(span).or_default().extend(items).
record_expected(p, span, items) ==
    LET map == p.expected_token_errors
    IN IF span \in DOMAIN map
       THEN [p EXCEPT !.expected_token_errors[span] = extend(@, items)]
       ELSE [p EXCEPT !.expected_token_errors =
                          map @@ (span :> extend(<<>>, items))]

\* sync with a slip: the ERROR node is opened without a look at the
\* recovery set first.
sync_unchecked(p, recovery_set) ==
    IF Dead(p) THEN p
    ELSE
    LET p1 == trivia(p)
        token == peek(p1)
    IN IF token = NoToken THEN p1
       ELSE LET p2 == record_expected(p1, token.span,
                                      descriptions(recovery_set))
                p3 == IF p2.pending_errors = <<>> THEN handle_errors(p2)
                      ELSE flush_errors(p2)
                p4 == output_begin(p3, "ERROR")
                RECURSIVE skip(_)
                skip(q) ==
                    IF peek(q) = NoToken
                       \/ contains(recovery_set, peek(q)) # NoKind
                    THEN q ELSE skip(bump(q))
            IN IF Dead(p3) THEN p3 ELSE output_end(skip(p4))

\* ParserImpl::sync.
sync(p, recovery_set) ==
    IF Dead(p) THEN p
    ELSE
    LET p1 == trivia(p)
        token == peek(p1)
    IN IF token = NoToken THEN p1
       ELSE IF contains(recovery_set, token) # NoKind THEN p1
       ELSE LET p2 == record_expected(p1, token.span,
                                      descriptions(recovery_set))
                p3 == IF p2.pending_errors = <<>> THEN handle_errors(p2)
                      ELSE flush_errors(p2)
                p4 == output_begin(p3, "ERROR")
                RECURSIVE skip(_)
                skip(q) ==
                    IF peek(q) = NoToken
                       \/ contains(recovery_set, peek(q)) # NoKind
                    THEN q ELSE skip(bump(q))
            IN IF Dead(p3) THEN p3 ELSE output_end(skip(p4))

\* ParserImpl::recover_and_sync.
recover_and_sync(p, recovery_set) == sync(recover(p), recovery_set)

\* committing with a slip: every match is taken for a commit point.
committing_always(p) == TRUE

\* ParserImpl::expect_d, `if self.opt_depth == 0`: a token matched outside
\* the optional branches is a commit point.
committing(p) == p.opt_depth = 0

\* ParserImpl::expect_d, at a commit point: the errors are flushed.
\* (`committed` is the number of tokens up to the last one matched at a
\* commit point.)
commit(p) == [flush_errors(p) EXCEPT !.committed = p.pos]

\* ParserImpl::expect_d.
expect_d(p, expected_tokens, description_) ==
    LET token == peek_non_ws(p)
        found == IF token = NoToken THEN NoKind
                 ELSE contains(expected_tokens, token)
        p1 == CASE token = NoToken -> p
                [] p.not_depth > 0 /\ found # NoKind ->
                       handle_errors([p EXCEPT !.unexpected_token_errors =
                                                   @ \cup {token.span}])
                [] p.not_depth = 0 /\ found = NoKind ->
                       handle_errors(
                           record_expected(p, token.span,
                               IF description_ # NoDescription
                               THEN <<description_>>
                               ELSE descriptions(expected_tokens)))
                [] OTHER -> p
        p2 == trivia(p1)
        p3 == push_token(next_token(p2), found, peek(p2).span)
    IN CASE Dead(p) \/ p.state = "Failure" -> p
         [] p1.stopped # "" -> p1
         [] found = NoKind -> [p1 EXCEPT !.state = "Failure"]
         [] ~has_more(p2) -> panic(p2, "unwrap on a None value")
         [] committing(p3) -> commit(p3)
         [] OTHER -> p3

\* ParserImpl::expect.
expect(p, expected_tokens) == expect_d(p, expected_tokens, NoDescription)

\* self.opt_depth += 1 and self.not_depth += 1.
enter_branch(p) == [p EXCEPT !.opt_depth = @ + 1]

enter_not(p) == [p EXCEPT !.not_depth = @ + 1]

\* The decrement that is left out.
leave_branch_forgotten(p) == p

\* self.opt_depth -= 1 and self.not_depth -= 1.  The counters are usize:
\* below 0 a build with overflow checks panics (one without wraps around);
\* `depth_audit` holds the underflow.
leave_branch(p) ==
    IF p.opt_depth = 0
    THEN [panic(p, "attempt to subtract with overflow")
              EXCEPT !.depth_audit = @ \cup {"underflow"}]
    ELSE [p EXCEPT !.opt_depth = @ - 1]

leave_not(p) ==
    IF p.not_depth = 0
    THEN [panic(p, "attempt to subtract with overflow")
              EXCEPT !.depth_audit = @ \cup {"underflow"}]
    ELSE [p EXCEPT !.not_depth = @ - 1]

\* The parser q that a combinator entered with p returns: `depth_audit`
\* holds a return with a counter that is not what it was on entry.
balanced(p, q) ==
    IF q.opt_depth = p.opt_depth /\ q.not_depth = p.not_depth THEN q
    ELSE [q EXCEPT !.depth_audit = @ \cup {"unbalanced"}]

\* ParserImpl::begin_alt: the Alt that holds the parser.
begin_alt(p) ==
    LET b == bookmark(p)
    IN [parser |-> b.parser, matched |-> FALSE, bookmark |-> b.bookmark]

\* Alt::alt.
alt(a, f(_)) ==
    LET p2 == f(enter_branch(trivia(a.parser)))
        p3 == leave_branch(p2)
    IN CASE Dead(a.parser) \/ a.parser.state = "Failure" \/ a.matched -> a
         [] p2.stopped # "" -> [a EXCEPT !.parser = p2]
         [] p3.stopped # "" -> [a EXCEPT !.parser = p3]
         [] p3.state = "OK" ->
                [a EXCEPT !.parser = balanced(a.parser, p3), !.matched = TRUE]
         [] p3.state = "Failure" ->
                [a EXCEPT !.parser =
                     balanced(a.parser,
                              restore_bookmark(recover(p3), a.bookmark))]
         [] OTHER -> [a EXCEPT !.parser = panic(p3, "alt: unreachable")]

\* end_alt with a slip: the bookmark of the group is not removed.
end_alt_keeping_bookmark(a) ==
    IF Dead(a.parser) THEN a.parser
    ELSE IF a.matched THEN [a.parser EXCEPT !.state = "OK"]
    ELSE handle_errors([a.parser EXCEPT !.state = "Failure"])

\* Alt::end_alt.
end_alt(a) ==
    IF Dead(a.parser) THEN a.parser
    ELSE LET p1 == remove_bookmark(a.parser, a.bookmark)
         IN IF a.matched THEN [p1 EXCEPT !.state = "OK"]
            ELSE handle_errors([p1 EXCEPT !.state = "Failure"])

\* ParserImpl::opt.
opt(p, parser_(_)) ==
    LET b == bookmark(p)
        p2 == parser_(enter_branch(trivia(b.parser)))
        p3 == leave_branch(p2)
    IN CASE Dead(p) \/ p.state = "Failure" -> p
         [] p2.stopped # "" -> p2
         [] p3.stopped # "" -> p3
         [] p3.state = "Failure" ->
                balanced(p, remove_bookmark(
                                restore_bookmark(recover(p3), b.bookmark),
                                b.bookmark))
         [] OTHER -> balanced(p, remove_bookmark(p3, b.bookmark))

\* ParserImpl::not.
not(p, parser_(_)) ==
    LET b == bookmark(p)
        p2 == parser_(enter_not(trivia(b.parser)))
        p3 == leave_not(p2)
    IN CASE Dead(p) \/ p.state = "Failure" -> p
         [] p2.stopped # "" -> p2
         [] p3.stopped # "" -> p3
         [] p3.state = "OK" ->
                balanced(p, remove_bookmark(
                                restore_bookmark([p3 EXCEPT !.state = "Failure"],
                                                 b.bookmark),
                                b.bookmark))
         [] p3.state = "Failure" ->
                balanced(p, remove_bookmark(
                                restore_bookmark([p3 EXCEPT !.state = "OK"],
                                                 b.bookmark),
                                b.bookmark))
         [] OTHER -> panic(p3, "not: unreachable")

\* ParserImpl::opt_expect.
opt_expect(p, expected_tokens) ==
    opt(p, LAMBDA q: expect(q, expected_tokens))

\* ParserImpl::if_next.
if_next(p, expected_tokens, parser_(_)) ==
    LET token == peek_non_ws(p)
    IN CASE Dead(p) \/ p.state = "Failure" \/ token = NoToken -> p
         [] contains(expected_tokens, token) # NoKind -> parser_(trivia(p))
         [] OTHER ->
                record_expected(p, token.span, descriptions(expected_tokens))

\* ParserImpl::then.
then(p, parser_(_)) ==
    IF Dead(p) \/ p.state = "Failure" THEN p ELSE parser_(trivia(p))

\* ParserImpl::cond.
cond(p, expected_tokens, parser_(_)) ==
    if_next(p, expected_tokens,
            LAMBDA q: then(expect(q, expected_tokens), parser_))

\* ParserImpl::n_or_more.  An iteration of the final loop that matches
\* without consuming a token leaves the loop where it was: LoopFuel + the
\* number of tokens left is more iterations than a loop that ends can make.
LoopFuel == 2

n_or_more(p, n, parser_(_)) ==
    LET must[i \in 0..n] ==
            IF i = 0 THEN p
            ELSE IF Dead(must[i - 1]) \/ must[i - 1].state = "Failure"
            THEN must[i - 1]
            ELSE parser_(trivia(must[i - 1]))
        first == IF n = 0 THEN p ELSE must[n]
        RECURSIVE loop(_, _)
        loop(q, i) ==
            LET b == bookmark(q)
                q2 == parser_(enter_branch(trivia(b.parser)))
                q3 == leave_branch(q2)
            IN CASE i = 0 -> hang(q)
                 [] q2.stopped # "" -> q2
                 [] q3.stopped # "" -> q3
                 [] q3.state = "Failure" ->
                        balanced(p, remove_bookmark(
                                        restore_bookmark(recover(q3),
                                                         b.bookmark),
                                        b.bookmark))
                 [] OTHER -> loop(remove_bookmark(q3, b.bookmark), i - 1)
    IN CASE Dead(p) \/ p.state = "Failure" -> p
         [] first.stopped # "" \/ first.state = "Failure" -> first
         [] OTHER -> loop(first, Len(p.tokens) - first.pos + LoopFuel)

\* ParserImpl::zero_or_more.
zero_or_more(p, parser_(_)) == n_or_more(p, 0, parser_)

\* ParserImpl::one_or_more.
one_or_more(p, parser_(_)) == n_or_more(p, 1, parser_)

\* cache_key with a slip: the key is the rule alone, wherever it starts.
cache_key_anywhere(p, kind) == <<0, kind>>

\* cache_key with a slip: the index is that of the first token of the
\* top-level item.
cache_key_of_item(p, kind) == <<p.item_start, kind>>

\* ParserImpl::cached, the key of the cache: where the rule starts, and the
\* rule.
cache_key(p, kind) == <<current_token_index(p), kind>>

\* What is held against a call of `cached`: it was entered in Failure; the
\* cache answered where the rule, run again, does not fail; the cache holds
\* an entry from before the top-level item that is being parsed.
audit(p, findings) ==
    [p EXCEPT !.cache_audit =
                  @ \cup {f \in DOMAIN findings : findings[f]}]

\* ParserImpl::cached.  (`cache_hits` counts the calls the cache answered
\* and `cache_inserts` the entries made.)
cached(p, kind, parser_(_)) ==
    LET key == cache_key(p, kind)
        p1 == parser_(p)
        entered == [entered_in_failure |-> p.state = "Failure"]
    IN CASE Dead(p) -> p
         [] p.packrat /\ key \in p.cache ->
                audit([p EXCEPT !.state = "Failure", !.cache_hits = @ + 1],
                      [entered_in_failure |-> p.state = "Failure",
                       hit_where_rule_succeeds |->
                           p1.stopped = "" /\ p1.state # "Failure",
                       entry_of_earlier_item |-> key[1] < p.item_start])
         [] p1.stopped = "" /\ p1.state = "Failure" /\ p.packrat ->
                audit([p1 EXCEPT !.cache = @ \cup {key},
                                 !.cache_inserts = @ + 1],
                      [entered_in_failure |-> p.state = "Failure",
                       entry_of_earlier_item |->
                           \E k \in p1.cache : k[1] < p.item_start])
         [] OTHER -> audit(p1, entered)

(***************************************************************************)
(* Grammar rules.  A rule is the method chain of its body: the sequence of *)
(* its calls, each call a tuple of the method's name and its arguments; a  *)
(* closure argument `|p| p.a().b()` is the chain of the closure's body.    *)
(***************************************************************************)

\* import_stmt with a slip: the name of the module is taken for an
\* identifier.
import_stmt_ident ==
    << <<"begin", "IMPORT_STMT">>,
       <<"expect", <<"IMPORT_KW">>>>,
       <<"expect", <<"IDENT">>>>,
       <<"end">> >>

\* ParserImpl::import_stmt.
import_stmt ==
    << <<"begin", "IMPORT_STMT">>,
       <<"expect", <<"IMPORT_KW">>>>,
       <<"expect", <<"STRING_LIT">>>>,
       <<"end">> >>

\* ParserImpl::rule_mods.
rule_mods ==
    << <<"begin", "RULE_MODS">>,
       <<"begin_alt">>,
       <<"alt", << <<"expect", <<"PRIVATE_KW">>>>,
                   <<"opt_expect", <<"GLOBAL_KW">>>> >> >>,
       <<"alt", << <<"expect", <<"GLOBAL_KW">>>>,
                   <<"opt_expect", <<"PRIVATE_KW">>>> >> >>,
       <<"end_alt">>,
       <<"end">> >>

\* ParserImpl::rule_tags.
rule_tags ==
    << <<"begin", "RULE_TAGS">>,
       <<"expect", <<"COLON">>>>,
       <<"one_or_more", << <<"expect", <<"IDENT">>>> >> >>,
       <<"end">> >>

\* ParserImpl::meta_def.
meta_def ==
    << <<"begin", "META_DEF">>,
       <<"expect", <<"IDENT">>>>,
       <<"expect", <<"EQUAL">>>>,
       <<"begin_alt">>,
       <<"alt", << <<"opt_expect", <<"MINUS">>>>,
                   <<"expect", <<"INTEGER_LIT", "FLOAT_LIT">>>> >> >>,
       <<"alt", << <<"expect", <<"STRING_LIT", "TRUE_KW", "FALSE_KW">>>> >> >>,
       <<"end_alt">>,
       <<"end">> >>

\* ParserImpl::meta_blk.
meta_blk ==
    << <<"begin", "META_BLK">>,
       <<"expect", <<"META_KW">>>>,
       <<"expect", <<"COLON">>>>,
       <<"one_or_more", << <<"meta_def">> >> >>,
       <<"end">> >>

\* ParserImpl::hex_pattern.
hex_pattern ==
    << <<"begin", "HEX_PATTERN">>,
       <<"expect", <<"L_BRACE">>>>,
       <<"enter_hex_pattern_mode">>,
       <<"then", << <<"hex_sub_pattern">> >> >>,
       <<"expect", <<"R_BRACE">>>>,
       <<"end">> >>

\* The description of the tokens ParserImpl::pattern_mod expects.
PatternModDesc == "pattern modifier"

\* ParserImpl::pattern_mod.
pattern_mod ==
    << <<"begin", "PATTERN_MOD">>,
       <<"begin_alt">>,
       <<"alt", << <<"expect_d", <<"ASCII_KW", "WIDE_KW", "NOCASE_KW",
                                   "PRIVATE_KW", "FULLWORD_KW">>,
                     PatternModDesc>> >> >>,
       <<"alt", << <<"expect_d", <<"BASE64_KW", "BASE64WIDE_KW">>,
                     PatternModDesc>>,
                   <<"opt", << <<"expect", <<"L_PAREN">>>>,
                               <<"expect", <<"STRING_LIT">>>>,
                               <<"expect", <<"R_PAREN">>>> >> >> >> >>,
       <<"alt", << <<"expect_d", <<"XOR_KW">>, PatternModDesc>>,
                   <<"opt", << <<"expect", <<"L_PAREN">>>>,
                               <<"expect", <<"INTEGER_LIT">>>>,
                               <<"opt", << <<"expect", <<"HYPHEN">>>>,
                                           <<"expect", <<"INTEGER_LIT">>>> >> >>,
                               <<"expect", <<"R_PAREN">>>> >> >> >> >>,
       <<"end_alt">>,
       <<"end">> >>

\* ParserImpl::pattern_mods.
pattern_mods ==
    << <<"begin", "PATTERN_MODS">>,
       <<"one_or_more", << <<"pattern_mod">> >> >>,
       <<"end">> >>

\* ParserImpl::pattern_def.
pattern_def ==
    << <<"begin", "PATTERN_DEF">>,
       <<"expect", <<"PATTERN_IDENT">>>>,
       <<"expect", <<"EQUAL">>>>,
       <<"begin_alt">>,
       <<"alt", << <<"expect", <<"STRING_LIT">>>> >> >>,
       <<"alt", << <<"expect", <<"REGEXP">>>> >> >>,
       <<"alt", << <<"hex_pattern">> >> >>,
       <<"end_alt">>,
       <<"opt", << <<"pattern_mods">> >> >>,
       <<"end">> >>

\* ParserImpl::patterns_blk.
patterns_blk ==
    << <<"begin", "PATTERNS_BLK">>,
       <<"expect", <<"STRINGS_KW">>>>,
       <<"expect", <<"COLON">>>>,
       <<"one_or_more", << <<"pattern_def">> >> >>,
       <<"end">> >>

\* ParserImpl::condition_blk.
condition_blk ==
    << <<"begin", "CONDITION_BLK">>,
       <<"expect", <<"CONDITION_KW">>>>,
       <<"expect", <<"COLON">>>>,
       <<"then", << <<"boolean_expr">> >> >>,
       <<"end">> >>

\* ParserImpl::rule_decl.
rule_decl ==
    << <<"begin", "RULE_DECL">>,
       <<"opt", << <<"rule_mods">> >> >>,
       <<"expect", <<"RULE_KW">>>>,
       <<"expect", <<"IDENT">>>>,
       <<"if_next", <<"COLON">>, << <<"rule_tags">> >> >>,
       <<"recover_and_sync", <<"L_BRACE">>>>,
       <<"expect", <<"L_BRACE">>>>,
       <<"recover_and_sync", <<"META_KW", "STRINGS_KW", "CONDITION_KW">>>>,
       <<"if_next", <<"META_KW">>, << <<"meta_blk">> >> >>,
       <<"recover_and_sync", <<"STRINGS_KW", "CONDITION_KW">>>>,
       <<"if_next", <<"STRINGS_KW">>, << <<"patterns_blk">> >> >>,
       <<"recover_and_sync", <<"CONDITION_KW">>>>,
       <<"condition_blk">>,
       <<"recover_and_sync", <<"R_BRACE">>>>,
       <<"expect", <<"R_BRACE">>>>,
       <<"end">> >>

\* ParserImpl::hex_sub_pattern.
hex_sub_pattern ==
    << <<"begin", "HEX_SUB_PATTERN">>,
       <<"begin_alt">>,
       <<"alt", << <<"expect", <<"HEX_BYTE">>>> >> >>,
       <<"alt", << <<"hex_alternative">> >> >>,
       <<"end_alt">>,
       <<"zero_or_more",
         << <<"zero_or_more", << <<"hex_jump">> >> >>,
            <<"begin_alt">>,
            <<"alt", << <<"expect", <<"HEX_BYTE">>>> >> >>,
            <<"alt", << <<"hex_alternative">> >> >>,
            <<"end_alt">> >> >>,
       <<"end">> >>

\* ParserImpl::hex_alternative.
hex_alternative ==
    << <<"begin", "HEX_ALTERNATIVE">>,
       <<"expect", <<"L_PAREN">>>>,
       <<"then", << <<"hex_sub_pattern">> >> >>,
       <<"zero_or_more", << <<"expect", <<"PIPE">>>>,
                            <<"then", << <<"hex_sub_pattern">> >> >> >> >>,
       <<"expect", <<"R_PAREN">>>>,
       <<"end">> >>

\* ParserImpl::hex_jump.
hex_jump ==
    << <<"begin", "HEX_JUMP">>,
       <<"expect", <<"L_BRACKET">>>>,
       <<"enter_hex_jump_mode">>,
       <<"begin_alt">>,
       <<"alt", << <<"opt_expect", <<"INTEGER_LIT">>>>,
                   <<"expect", <<"HYPHEN">>>>,
                   <<"opt_expect", <<"INTEGER_LIT">>>> >> >>,
       <<"alt", << <<"expect", <<"INTEGER_LIT">>>> >> >>,
       <<"end_alt">>,
       <<"expect", <<"R_BRACKET">>>>,
       <<"end">> >>

\* The comparison operators of ParserImpl::boolean_term.
ComparisonOps ==
    <<"EQ", "NE", "LE", "LT", "GE", "GT", "CONTAINS_KW", "ICONTAINS_KW",
      "STARTSWITH_KW", "ISTARTSWITH_KW", "ENDSWITH_KW", "IENDSWITH_KW",
      "MATCHES_KW">>

\* The arithmetic and bitwise operators of ParserImpl::expr.
ArithmeticOps ==
    <<"ADD", "SUB", "MUL", "DIV", "MOD", "SHL", "SHR", "BITWISE_AND",
      "BITWISE_OR", "BITWISE_XOR", "BITWISE_NOT", "DOT">>

\* ParserImpl::boolean_expr.
boolean_expr ==
    << <<"begin", "BOOLEAN_EXPR">>,
       <<"boolean_term">>,
       <<"zero_or_more", << <<"expect", <<"AND_KW", "OR_KW">>>>,
                            <<"then", << <<"boolean_term">> >> >> >> >>,
       <<"end">> >>

\* ParserImpl::boolean_term.
boolean_term ==
    << <<"begin", "BOOLEAN_TERM">>,
       <<"begin_alt">>,
       <<"alt", << <<"expect", <<"PATTERN_IDENT">>>>,
                   <<"cond", <<"AT_KW">>, << <<"expr">> >> >>,
                   <<"cond", <<"IN_KW">>, << <<"range">> >> >> >> >>,
       <<"alt", << <<"expect", <<"TRUE_KW", "FALSE_KW">>>> >> >>,
       <<"alt", << <<"expect", <<"NOT_KW", "DEFINED_KW">>>>,
                   <<"then", << <<"boolean_term">> >> >> >> >>,
       <<"alt", << <<"for_expr">> >> >>,
       <<"alt", << <<"of_expr">> >> >>,
       <<"alt", << <<"expr">>,
                   <<"zero_or_more",
                     << <<"expect", ComparisonOps>>,
                        <<"then", << <<"expr">> >> >> >> >> >> >>,
       <<"alt", << <<"expect", <<"L_PAREN">>>>,
                   <<"then", << <<"boolean_expr">> >> >>,
                   <<"expect", <<"R_PAREN">>>> >> >>,
       <<"end_alt">>,
       <<"end">> >>

\* ParserImpl::expr.
expr ==
    << <<"begin", "EXPR">>,
       <<"term">>,
       <<"zero_or_more", << <<"expect", ArithmeticOps>>,
                            <<"then", << <<"term">> >> >> >> >>,
       <<"end">> >>

\* ParserImpl::term.
term ==
    << <<"begin", "TERM">>,
       <<"then", << <<"primary_expr">> >> >>,
       <<"cond", <<"L_BRACKET">>,
         << <<"expr">>, <<"expect", <<"R_BRACKET">>>> >> >>,
       <<"cond", <<"L_PAREN">>,
         << <<"opt", << <<"boolean_expr">> >> >>,
            <<"zero_or_more", << <<"expect", <<"COMMA">>>>,
                                 <<"then", << <<"boolean_expr">> >> >> >> >>,
            <<"expect", <<"R_PAREN">>>> >> >>,
       <<"end">> >>

\* ParserImpl::range.
range ==
    << <<"begin", "RANGE">>,
       <<"expect", <<"L_PAREN">>>>,
       <<"then", << <<"expr">> >> >>,
       <<"expect", <<"DOT">>>>,
       <<"expect", <<"DOT">>>>,
       <<"then", << <<"expr">> >> >>,
       <<"expect", <<"R_PAREN">>>>,
       <<"end">> >>

\* The description of the tokens ParserImpl::primary_expr expects.
PrimaryExprDesc == "expression"

\* ParserImpl::primary_expr.
primary_expr ==
    << <<"cached", "PRIMARY_EXPR",
         << <<"begin", "PRIMARY_EXPR">>,
            <<"begin_alt">>,
            <<"alt", << <<"expect_d",
                          <<"FLOAT_LIT", "INTEGER_LIT", "STRING_LIT", "REGEXP",
                            "FILESIZE_KW", "ENTRYPOINT_KW">>,
                          PrimaryExprDesc>> >> >>,
            <<"alt", << <<"expect_d", <<"PATTERN_COUNT">>, PrimaryExprDesc>>,
                        <<"opt", << <<"expect", <<"IN_KW">>>>,
                                    <<"then", << <<"range">> >> >> >> >> >> >>,
            <<"alt", << <<"expect_d", <<"PATTERN_OFFSET", "PATTERN_LENGTH">>,
                          PrimaryExprDesc>>,
                        <<"opt", << <<"expect", <<"L_BRACKET">>>>,
                                    <<"then", << <<"expr">> >> >>,
                                    <<"expect", <<"R_BRACKET">>>> >> >> >> >>,
            <<"alt", << <<"expect_d", <<"MINUS">>, PrimaryExprDesc>>,
                        <<"then", << <<"term">> >> >> >> >>,
            <<"alt", << <<"expect_d", <<"BITWISE_NOT">>, PrimaryExprDesc>>,
                        <<"then", << <<"term">> >> >> >> >>,
            <<"alt", << <<"expect_d", <<"L_PAREN">>, PrimaryExprDesc>>,
                        <<"then", << <<"expr">> >> >>,
                        <<"expect", <<"R_PAREN">>>> >> >>,
            <<"alt", << <<"expect_d", <<"IDENT">>, PrimaryExprDesc>>,
                        <<"zero_or_more",
                          << <<"expect", <<"DOT">>>>,
                             <<"expect", <<"IDENT">>>> >> >> >> >>,
            <<"end_alt">>,
            <<"end">> >> >> >>

\* ParserImpl::for_expr.
for_expr ==
    << <<"begin", "FOR_EXPR">>,
       <<"expect", <<"FOR_KW">>>>,
       <<"then", << <<"quantifier">> >> >>,
       <<"begin_alt">>,
       <<"alt", << <<"expect", <<"OF_KW">>>>,
                   <<"begin_alt">>,
                   <<"alt", << <<"expect", <<"THEM_KW">>>> >> >>,
                   <<"alt", << <<"pattern_ident_tuple">> >> >>,
                   <<"end_alt">> >> >>,
       <<"alt", << <<"expect", <<"IDENT">>>>,
                   <<"zero_or_more", << <<"expect", <<"COMMA">>>>,
                                        <<"expect", <<"IDENT">>>> >> >>,
                   <<"expect", <<"IN_KW">>>>,
                   <<"then", << <<"iterable">> >> >> >> >>,
       <<"end_alt">>,
       <<"expect", <<"COLON">>>>,
       <<"expect", <<"L_PAREN">>>>,
       <<"then", << <<"boolean_expr">> >> >>,
       <<"expect", <<"R_PAREN">>>>,
       <<"end">> >>

\* ParserImpl::of_expr.
of_expr ==
    << <<"begin", "OF_EXPR">>,
       <<"then", << <<"quantifier">> >> >>,
       <<"expect", <<"OF_KW">>>>,
       <<"begin_alt">>,
       <<"alt", << <<"begin_alt">>,
                   <<"alt", << <<"expect", <<"THEM_KW">>>> >> >>,
                   <<"alt", << <<"pattern_ident_tuple">> >> >>,
                   <<"end_alt">>,
                   <<"cond", <<"AT_KW">>, << <<"expr">> >> >>,
                   <<"cond", <<"IN_KW">>, << <<"range">> >> >> >> >>,
       <<"alt", << <<"boolean_expr_tuple">>,
                   <<"not", << <<"expect", <<"AT_KW", "IN_KW">>>> >> >> >> >>,
       <<"end_alt">>,
       <<"end">> >>

\* ParserImpl::quantifier.
quantifier ==
    << <<"begin", "QUANTIFIER">>,
       <<"begin_alt">>,
       <<"alt", << <<"expect", <<"ALL_KW", "NONE_KW", "ANY_KW">>>> >> >>,
       <<"alt", << <<"primary_expr">>, <<"expect", <<"PERCENT">>>> >> >>,
       <<"alt", << <<"expr">>,
                   <<"not", << <<"expect", <<"PERCENT">>>> >> >> >> >>,
       <<"end_alt">>,
       <<"end">> >>

\* ParserImpl::iterable.
iterable ==
    << <<"begin", "ITERABLE">>,
       <<"begin_alt">>,
       <<"alt", << <<"range">> >> >>,
       <<"alt", << <<"expr_tuple">> >> >>,
       <<"alt", << <<"expr">> >> >>,
       <<"end_alt">>,
       <<"end">> >>

\* ParserImpl::boolean_expr_tuple.
boolean_expr_tuple ==
    << <<"begin", "BOOLEAN_EXPR_TUPLE">>,
       <<"expect", <<"L_PAREN">>>>,
       <<"then", << <<"boolean_expr">> >> >>,
       <<"zero_or_more", << <<"expect", <<"COMMA">>>>,
                            <<"then", << <<"boolean_expr">> >> >> >> >>,
       <<"expect", <<"R_PAREN">>>>,
       <<"end">> >>

\* ParserImpl::expr_tuple.
expr_tuple ==
    << <<"begin", "EXPR_TUPLE">>,
       <<"expect", <<"L_PAREN">>>>,
       <<"then", << <<"expr">> >> >>,
       <<"zero_or_more", << <<"expect", <<"COMMA">>>>,
                            <<"then", << <<"expr">> >> >> >> >>,
       <<"expect", <<"R_PAREN">>>>,
       <<"end">> >>

\* ParserImpl::pattern_ident_tuple.
pattern_ident_tuple ==
    << <<"begin", "PATTERN_IDENT_TUPLE">>,
       <<"expect", <<"L_PAREN">>>>,
       <<"expect", <<"PATTERN_IDENT">>>>,
       <<"opt_expect", <<"ASTERISK">>>>,
       <<"zero_or_more", << <<"expect", <<"COMMA">>>>,
                            <<"expect", <<"PATTERN_IDENT">>>>,
                            <<"opt_expect", <<"ASTERISK">>>> >> >>,
       <<"expect", <<"R_PAREN">>>>,
       <<"end">> >>

\* The grammar rules of ParserImpl, by name.
Rules ==
    [import_stmt |-> import_stmt, rule_mods |-> rule_mods,
     rule_tags |-> rule_tags, meta_def |-> meta_def, meta_blk |-> meta_blk,
     hex_pattern |-> hex_pattern, pattern_mod |-> pattern_mod,
     pattern_mods |-> pattern_mods, pattern_def |-> pattern_def,
     patterns_blk |-> patterns_blk, condition_blk |-> condition_blk,
     rule_decl |-> rule_decl, hex_sub_pattern |-> hex_sub_pattern,
     hex_alternative |-> hex_alternative, hex_jump |-> hex_jump,
     boolean_expr |-> boolean_expr, boolean_term |-> boolean_term,
     expr |-> expr, term |-> term, range |-> range,
     primary_expr |-> primary_expr, for_expr |-> for_expr,
     of_expr |-> of_expr, quantifier |-> quantifier, iterable |-> iterable,
     boolean_expr_tuple |-> boolean_expr_tuple, expr_tuple |-> expr_tuple,
     pattern_ident_tuple |-> pattern_ident_tuple]

RECURSIVE call(_, _, _), top_level_item(_)

\* A method chain `p.a().b().c()` run on p: its calls are made in order,
\* each one on what the one before returned, and the chain returns what the
\* last one does.  (The longest chain of the grammar, the body of
\* rule_decl, has 16 calls.)
chain(p, calls) ==
    IF Len(calls) = 1 THEN call(p, calls, 1)
    ELSE LET s1 == call(p, calls, 1)
            s2 == call(s1, calls, 2)
            s3 == call(s2, calls, 3)
            s4 == call(s3, calls, 4)
            s5 == call(s4, calls, 5)
            s6 == call(s5, calls, 6)
            s7 == call(s6, calls, 7)
            s8 == call(s7, calls, 8)
            s9 == call(s8, calls, 9)
            s10 == call(s9, calls, 10)
            s11 == call(s10, calls, 11)
            s12 == call(s11, calls, 12)
            s13 == call(s12, calls, 13)
            s14 == call(s13, calls, 14)
            s15 == call(s14, calls, 15)
            s16 == call(s15, calls, 16)
         IN <<s1, s2, s3, s4, s5, s6, s7, s8, s9, s10, s11, s12, s13, s14, s15,
              s16>>[16]

\* The i-th call of a method chain, made on p (on an Alt, for alt and
\* end_alt); past the last call of the chain, p itself.
call(p, calls, i) ==
    CASE i > Len(calls) -> p
      [] calls[i][1] = "begin" -> begin(p, calls[i][2])
      [] calls[i][1] = "end" -> end(p)
      [] calls[i][1] = "expect" -> expect(p, calls[i][2])
      [] calls[i][1] = "expect_d" -> expect_d(p, calls[i][2], calls[i][3])
      [] calls[i][1] = "opt_expect" -> opt_expect(p, calls[i][2])
      [] calls[i][1] = "recover_and_sync" ->
             recover_and_sync(p, calls[i][2])
      [] calls[i][1] = "enter_hex_pattern_mode" ->
             enter_hex_pattern_mode(p)
      [] calls[i][1] = "enter_hex_jump_mode" -> enter_hex_jump_mode(p)
      [] calls[i][1] = "opt" ->
             opt(p, LAMBDA q: chain(q, calls[i][2]))
      [] calls[i][1] = "not" ->
             not(p, LAMBDA q: chain(q, calls[i][2]))
      [] calls[i][1] = "then" ->
             then(p, LAMBDA q: chain(q, calls[i][2]))
      [] calls[i][1] = "if_next" ->
             if_next(p, calls[i][2], LAMBDA q: chain(q, calls[i][3]))
      [] calls[i][1] = "cond" ->
             cond(p, calls[i][2], LAMBDA q: chain(q, calls[i][3]))
      [] calls[i][1] = "zero_or_more" ->
             zero_or_more(p, LAMBDA q: chain(q, calls[i][2]))
      [] calls[i][1] = "one_or_more" ->
             one_or_more(p, LAMBDA q: chain(q, calls[i][2]))
      [] calls[i][1] = "cached" ->
             cached(p, calls[i][2], LAMBDA q: chain(q, calls[i][3]))
      [] calls[i][1] = "begin_alt" -> begin_alt(p)
      [] calls[i][1] = "alt" ->
             alt(p, LAMBDA q: chain(q, calls[i][2]))
      [] calls[i][1] = "end_alt" -> end_alt(p)
      [] calls[i][1] = "top_level_item" -> top_level_item(p)
      [] OTHER -> chain(p, Rules[calls[i][1]])

\* top_level_item with a slip: the message of a stray token follows the
\* ERROR node instead of preceding it.
top_level_item_error_last(p) ==
    LET token == peek(p)
        p1 == output_begin(p, "ERROR")
        p2 == bump(p1)
        p3 == output_end(p2)
        p4 == push_error(p3,
                  "expecting import statement or rule definition, found "
                      \o description(token.id),
                  token.span)
    IN CASE Dead(p) -> p
         [] token = NoToken -> [p EXCEPT !.state = "Failure"]
         [] token.id = "IMPORT_KW" -> chain(p, import_stmt)
         [] token.id \in {"GLOBAL_KW", "PRIVATE_KW", "RULE_KW"} ->
                chain(p, rule_decl)
         [] OTHER -> [p4 EXCEPT !.state = "Failure"]

\* ParserImpl::top_level_item.
top_level_item(p) ==
    LET token == peek(p)
        p1 == push_error(p,
                  "expecting import statement or rule definition, found "
                      \o description(token.id),
                  token.span)
        p2 == output_begin(p1, "ERROR")
        p3 == bump(p2)
        p4 == output_end(p3)
    IN CASE Dead(p) -> p
         [] token = NoToken -> [p EXCEPT !.state = "Failure"]
         [] token.id = "IMPORT_KW" -> chain(p, import_stmt)
         [] token.id \in {"GLOBAL_KW", "PRIVATE_KW", "RULE_KW"} ->
                chain(p, rule_decl)
         [] OTHER -> [p4 EXCEPT !.state = "Failure"]

(***************************************************************************)
(* The iterators.                                                          *)
(***************************************************************************)

\* Option::None for events.
NoEvent == [type |-> "None"]

\* item_parsed with a slip: the state is left as top_level_item left it.
item_parsed_keeping_state(p) ==
    IF p.stopped # "" THEN p
    ELSE [flush_errors(p) EXCEPT !.cache = {}]

\* ParserImpl::next, last arm, once top_level_item has returned: the
\* errors are flushed, the cache is cleared, the state is OK again.
item_parsed(p) ==
    IF p.stopped # "" THEN p
    ELSE [flush_errors(p) EXCEPT !.cache = {}, !.state = "OK"]

\* ParserImpl::next, last arm, when tokens are left: one top-level item is
\* parsed.
parse_item(p) ==
    item_parsed(call([trivia(p) EXCEPT !.item_start = p.pos],
                     << <<"top_level_item">> >>, 1))

\* ParserImpl::next, the end of the last arm: the next buffered event, or
\* the end of the source file.  A call that panics or hangs returns nothing.
pop_or_end(p) ==
    CASE p.stopped # "" -> [parser |-> p, event |-> NoEvent]
      [] p.output # <<>> ->
             [parser |-> output_pop(p), event |-> Head(p.output)]
      [] OTHER -> [parser |-> [p EXCEPT !.state = "EndOfInput"],
                   event |-> End("SOURCE_FILE")]

\* ParserImpl::next (Iterator): the parser after the call and the event
\* returned.
next(p) ==
    CASE p.state = "StartOfInput" ->
             [parser |-> [p EXCEPT !.state = "OK"],
              event |-> Begin("SOURCE_FILE")]
      [] p.state = "EndOfInput" -> [parser |-> p, event |-> NoEvent]
      [] p.output # <<>> ->
             [parser |-> output_pop(p), event |-> Head(p.output)]
      [] OTHER -> pop_or_end(IF has_more(p) THEN parse_item(p) ELSE p)

RECURSIVE events_next(_, _)

\* skip_whitespace with a slip: the whitespace is ignored whatever the
\* setting.
skip_whitespace_always(r, ws) ==
    IF r.event.type = "Token" /\ r.event.kind = "WHITESPACE"
    THEN events_next(r.parser, ws)
    ELSE r

\* Events::next, the match on what ParserImpl::next returned: a whitespace
\* token is ignored and the next event is taken.
skip_whitespace(r, ws) ==
    IF ~ws /\ r.event.type = "Token" /\ r.event.kind = "WHITESPACE"
    THEN events_next(r.parser, ws)
    ELSE r

\* Events::next (Iterator).
events_next(p, ws) == skip_whitespace(next(p), ws)

(***************************************************************************)
(* Source texts.                                                           *)
(***************************************************************************)

\* The longest source text made of arbitrary tokens.
MaxLen == 3

\* The tokens the arbitrary source texts are made of.
Alphabet ==
    {"RULE_KW", "IDENT", "L_BRACE", "R_BRACE", "CONDITION_KW", "COLON",
     "TRUE_KW", "WHITESPACE"}

\* Every sequence of at most n tokens of the set S.
SeqsUpTo(S, n) == UNION {{s : s \in [1..k -> S]} : k \in 0..n}

\* import "x"
ImportItem == <<"IMPORT_KW", "WHITESPACE", "STRING_LIT">>

\* rule r { condition: true }
SimpleRule ==
    <<"RULE_KW", "WHITESPACE", "IDENT", "WHITESPACE", "L_BRACE",
      "WHITESPACE", "CONDITION_KW", "COLON", "WHITESPACE", "TRUE_KW",
      "WHITESPACE", "R_BRACE">>

\* private rule r:r{meta:r="x"strings:$a="x"condition:$a}
FullRule ==
    <<"PRIVATE_KW", "RULE_KW", "IDENT", "COLON", "IDENT", "L_BRACE",
      "META_KW", "COLON", "IDENT", "EQUAL", "STRING_LIT",
      "STRINGS_KW", "COLON", "PATTERN_IDENT", "EQUAL", "STRING_LIT",
      "CONDITION_KW", "COLON", "PATTERN_IDENT", "R_BRACE">>

\* rule r{condition:66+66}
SumRule ==
    <<"RULE_KW", "IDENT", "L_BRACE", "CONDITION_KW", "COLON",
      "INTEGER_LIT", "PLUS", "INTEGER_LIT", "R_BRACE">>

\* rule r { condition: true and }
TrueAnd ==
    <<"RULE_KW", "WHITESPACE", "IDENT", "WHITESPACE", "L_BRACE",
      "WHITESPACE", "CONDITION_KW", "COLON", "WHITESPACE", "TRUE_KW",
      "WHITESPACE", "AND_KW", "WHITESPACE", "R_BRACE">>

\* The top-level items the valid source texts are made of.
ValidItems == {ImportItem, SimpleRule, FullRule, SumRule}

\* The most top-level items of a valid source text.
MaxItems == 2

\* The valid source texts, each one the sequence of its top-level items.
ValidFiles == UNION {[1..k -> ValidItems] : k \in 0..MaxItems}

\* The source text of a sequence of top-level items, one item per line.
RECURSIVE Flatten(_)
Flatten(items) ==
    IF items = <<>> THEN <<>>
    ELSE IF Len(items) = 1 THEN items[1]
    ELSE items[1] \o <<"NEWLINE">> \o Flatten(Tail(items))

\* import "x" (newline) rule r { condition: true }
ImportAndRule == Flatten(<<ImportItem, SimpleRule>>)

\* Sample source texts.
Programs == {SimpleRule, TrueAnd, ImportAndRule, FullRule, SumRule}

\* The tokens put into the sample source texts.
Garbage == {"UNKNOWN", "IDENT", "R_BRACE", "RULE_KW", "INTEGER_LIT"}

\* The source text s with the token g put in after its first k tokens.
Insert(s, k, g) == SubSeq(s, 1, k) \o <<g>> \o SubSeq(s, k + 1, Len(s))

\* The sample source texts cut short or changed in one place: a token
\* deleted, a token inserted, a token replaced.
Edits(s) ==
    {SubSeq(s, 1, k) : k \in 0..Len(s)}
    \cup {SubSeq(s, 1, k - 1) \o SubSeq(s, k + 1, Len(s)) : k \in 1..Len(s)}
    \cup {Insert(s, k, g) : k \in 0..Len(s), g \in Garbage}
    \cup {[s EXCEPT ![k] = g] : k \in 1..Len(s), g \in Garbage}

\* rule r{condition:$a at 66 in(66..66)}
AtAndIn ==
    <<"RULE_KW", "IDENT", "L_BRACE", "CONDITION_KW", "COLON",
      "PATTERN_IDENT", "AT_KW", "INTEGER_LIT", "IN_KW", "L_PAREN",
      "INTEGER_LIT", "DOT", "DOT", "INTEGER_LIT", "R_PAREN", "R_BRACE">>

\* rule r{condition:r(,r)}
LeadingComma ==
    <<"RULE_KW", "IDENT", "L_BRACE", "CONDITION_KW", "COLON",
      "IDENT", "L_PAREN", "COMMA", "IDENT", "R_PAREN", "R_BRACE">>

\* rule r{condition:66 of(true)}
OfTuple ==
    <<"RULE_KW", "IDENT", "L_BRACE", "CONDITION_KW", "COLON",
      "INTEGER_LIT", "OF_KW", "L_PAREN", "TRUE_KW", "R_PAREN", "R_BRACE">>

\* rule r{condition:66 of(true)at 66}
OfTupleAt ==
    <<"RULE_KW", "IDENT", "L_BRACE", "CONDITION_KW", "COLON",
      "INTEGER_LIT", "OF_KW", "L_PAREN", "TRUE_KW", "R_PAREN", "AT_KW",
      "INTEGER_LIT", "R_BRACE">>

\* Source texts that take the grammar through its rarer paths.
GrammarCases == {AtAndIn, LeadingComma, OfTuple, OfTupleAt}

Inputs ==
    SeqsUpTo(Alphabet, MaxLen)
        \cup UNION {Edits(s) : s \in Programs}
        \cup {Flatten(f) : f \in ValidFiles}
        \cup GrammarCases

(***************************************************************************)
(* The state machine: the consumer builds a parser for a source text and   *)
(* calls the iterator until it returns None.                               *)
(***************************************************************************)

Init ==
    /\ \E src \in Inputs : parser = NewParser(src, TRUE)
    /\ whitespaces = TRUE
    /\ events = <<>>
    /\ NotLinting
    /\ NotComputing

\* Parser::whitespaces, called before the events are asked for.
Whitespaces ==
    /\ parser.state = "StartOfInput"
    /\ \E yes \in BOOLEAN : whitespaces' = yes
    /\ UNCHANGED <<parser, events, lint_vars, math_vars>>

\* What a call of Events::next leaves: the parser it has moved, and the
\* event it returned at the end of those the consumer has.
Returned(r) ==
    /\ parser' = r.parser
    /\ events' = IF r.event.type = "None" THEN events
                 ELSE Append(events, r.event)
    /\ UNCHANGED <<whitespaces, lint_vars, math_vars>>

\* A call of Events::next before the end of the input.
EventsNext ==
    /\ ~Dead(parser)
    /\ parser.state # "EndOfInput"
    /\ \E r \in {events_next(parser, whitespaces)} : Returned(r)

\* A call of Events::next after the end of the input: None.
EventsNextNone ==
    /\ ~Dead(parser)
    /\ parser.state = "EndOfInput"
    /\ \E r \in {events_next(parser, whitespaces)} : Returned(r)

Next == Whitespaces \/ EventsNext \/ EventsNextNone

Spec == Init /\ [][Next]_vars

(***************************************************************************)
(* The grammar A := a? b, written with the combinators, on short source    *)
(* texts: the parser parses A once and its errors are flushed.             *)
(***************************************************************************)

\* The tokens a and b of the grammar.
AggA == "PRIVATE_KW"
AggB == "RULE_KW"

\* A := a? b, i.e. p.opt(|p| p.expect(a)).expect(b).
rule_A(p) == expect(opt(p, LAMBDA q: expect(q, <<AggA>>)), <<AggB>>)

\* The longest source text given to A.
AggLen == 3

\* The tokens of the source texts given to A.
AggAlphabet == {"PRIVATE_KW", "RULE_KW", "IDENT", "L_BRACE", "WHITESPACE"}

AggInit ==
    /\ \E src \in SeqsUpTo(AggAlphabet, AggLen) :
           parser = NewParser(src, TRUE)
    /\ whitespaces = TRUE
    /\ events = <<>>
    /\ NotLinting
    /\ NotComputing

\* The parser parses A.
AggParse ==
    /\ parser.state = "StartOfInput"
    /\ parser' = rule_A([parser EXCEPT !.state = "OK"])
    /\ UNCHANGED <<whitespaces, events, lint_vars, math_vars>>

\* The pending errors are flushed and the consumer takes every event.
AggFlush ==
    /\ parser.state \in {"OK", "Failure"}
    /\ ~Dead(parser)
    /\ parser' = [flush_errors(parser) EXCEPT !.output = <<>>,
                                              !.state = "EndOfInput"]
    /\ events' = events \o flush_errors(parser).output
    /\ UNCHANGED <<whitespaces, lint_vars, math_vars>>

AggNext == AggParse \/ AggFlush

SpecAgg == AggInit /\ [][AggNext]_vars

(***************************************************************************)
(* Reading an event stream.                                                *)
(***************************************************************************)

\* The token ids of the source text the parser was built for.
Source(p) == [i \in 1..Len(p.tokens) |-> p.tokens[i].id]

\* The iterator has returned End(SOURCE_FILE).
Ended == parser.state = "EndOfInput"

\* The iterator returns no further event: it is at the end or it is dead.
Finished == Ended \/ Dead(parser)

\* The Token events, the Error events of a stream.
Tokens(evs) == SelectSeq(evs, LAMBDA e: e.type = "Token")
Errors(evs) == SelectSeq(evs, LAMBDA e: e.type = "Error")

\* What Events lets through of a stream: all of it with whitespaces on,
\* everything except the WHITESPACE tokens otherwise.
Visible(evs, ws) ==
    IF ws THEN evs
    ELSE SelectSeq(evs, LAMBDA e: ~(e.type = "Token" /\ e.kind = "WHITESPACE"))

\* The spans of the tokens t tile the source text of length n.
Contiguous(t, n) ==
    /\ (t = <<>>) => n = 0
    /\ (t # <<>>) => t[1].span[1] = 0 /\ t[Len(t)].span[2] = n
    /\ \A i \in 1..(Len(t) - 1) : t[i].span[2] = t[i + 1].span[1]

\* The number of nodes open after each event of a stream.
Depths(evs) ==
    [k \in 1..Len(evs) |->
        Cardinality({i \in 1..k : evs[i].type = "Begin"})
        - Cardinality({i \in 1..k : evs[i].type \in {"End", "EndWithError"}})]
        \o <<>>

\* The stream is one tree: SOURCE_FILE opens it and closes it, nothing is
\* closed that is not open, and every node is closed under the kind it was
\* opened with.
Balanced(evs) ==
    LET n == Len(evs)
        d == Depths(evs)
    IN /\ n >= 2
       /\ evs[1] = Begin("SOURCE_FILE")
       /\ evs[n] = End("SOURCE_FILE")
       /\ d[n] = 0
       /\ \A k \in 1..(n - 1) : d[k] >= 1
       /\ \A j \in 1..n :
              evs[j].type \in {"End", "EndWithError"} =>
                  \E i \in 1..(j - 1) :
                      /\ evs[i].type = "Begin"
                      /\ evs[i].kind = evs[j].kind
                      /\ d[i] = d[j] + 1
                      /\ \A m \in i..(j - 1) : d[m] >= d[i]

\* The index of the event that closes the node opened at index i of a
\* balanced stream with depths d.
Close(d, i) ==
    CHOOSE j \in (i + 1)..Len(d) :
        d[j] = d[i] - 1 /\ \A m \in i..(j - 1) : d[m] >= d[i]

\* The events of the node opened at index i.
Subtree(evs, d, i) == SubSeq(evs, i, Close(d, i))

\* The kinds of the children of the node opened at index i: its nodes and
\* its tokens, without the trivia and without the ERROR nodes.
ChildKinds(evs, d, i) ==
    LET j == Close(d, i)
        child(k) ==
            /\ i < k
            /\ k < j
            /\ \/ /\ evs[k].type = "Begin"
                  /\ d[k] = d[i] + 1
                  /\ evs[k].kind # "ERROR"
               \/ /\ evs[k].type = "Token"
                  /\ d[k] = d[i]
                  /\ evs[k].kind \notin TriviaIds
        idx == SelectSeq([k \in 1..Len(evs) |-> k], child)
    IN [m \in 1..Len(idx) |-> evs[idx[m]].kind]

\* <<k>> if b, nothing otherwise: an optional child.
Opt(b, k) == IF b THEN <<k>> ELSE <<>>

\* The children the grammar gives to a node of a kind (the productions in
\* the comments of the grammar rules).
Production(kind, kids) ==
    CASE kind = "IMPORT_STMT" -> kids = <<"IMPORT_KW", "STRING_LIT">>
      [] kind = "RULE_DECL" ->
             \E m, t, b, s \in BOOLEAN :
                 kids = Opt(m, "RULE_MODS") \o <<"RULE_KW", "IDENT">>
                            \o Opt(t, "RULE_TAGS") \o <<"L_BRACE">>
                            \o Opt(b, "META_BLK") \o Opt(s, "PATTERNS_BLK")
                            \o <<"CONDITION_BLK", "R_BRACE">>
      [] kind = "CONDITION_BLK" ->
             kids = <<"CONDITION_KW", "COLON", "BOOLEAN_EXPR">>
      [] kind = "META_BLK" ->
             /\ Len(kids) >= 3
             /\ SubSeq(kids, 1, 2) = <<"META_KW", "COLON">>
             /\ \A k \in 3..Len(kids) : kids[k] = "META_DEF"
      [] kind = "PATTERNS_BLK" ->
             /\ Len(kids) >= 3
             /\ SubSeq(kids, 1, 2) = <<"STRINGS_KW", "COLON">>
             /\ \A k \in 3..Len(kids) : kids[k] = "PATTERN_DEF"
      [] OTHER -> TRUE

\* The stream moved by a number of bytes.
Shift(evs, by) ==
    [k \in 1..Len(evs) |->
        IF evs[k].type \in {"Token", "Error"}
        THEN [evs[k] EXCEPT !.span = <<@[1] + by, @[2] + by>>]
        ELSE evs[k]]

\* The stream `sub` is a run of consecutive events of `evs`.
Occurs(sub, evs) ==
    \E n \in 0..(Len(evs) - Len(sub)) :
        SubSeq(evs, n + 1, n + Len(sub)) = sub

\* The events ParserImpl returns, one call of next after the other, from a
\* parser whose buffer is `p.output`, after the events evs.
RECURSIVE collect_items(_, _)
collect_items(p, evs) ==
    IF p.output # <<>>
    THEN collect_items([p EXCEPT !.output = <<>>], evs \o p.output)
    ELSE LET q == pop_or_end(IF has_more(p) THEN parse_item(p) ELSE p)
         IN CASE q.event.type = "None" -> evs
              [] q.parser.state = "EndOfInput" -> Append(evs, q.event)
              [] OTHER -> collect_items(q.parser, Append(evs, q.event))

\* Every event of the parse of a source text, with the failure cache
\* (packrat) or without it.
Parse(src, packrat) ==
    collect_items([NewParser(src, packrat) EXCEPT !.state = "OK"],
                  <<Begin("SOURCE_FILE")>>)

\* The syntax kind of a top-level item of a valid source text.
ItemKind(item) == IF item[1] = "IMPORT_KW" THEN "IMPORT_STMT" ELSE "RULE_DECL"

(***************************************************************************)
(* Properties.                                                             *)
(***************************************************************************)

\* C1 (losslessness): with whitespaces enabled, once the iterator returns
\* nothing more, the spans of the Token events it has returned, in stream
\* order, are contiguous, start at 0 and end at the length of the source.
C1_Lossless ==
    (Finished /\ whitespaces) =>
        Contiguous(Tokens(events), SourceLen(parser.tokens))

\* C2 (well-nestedness): once the iterator returns nothing more, the events
\* it has returned are a balanced tree, all of it between
\* Begin(SOURCE_FILE) and End(SOURCE_FILE).
C2_WellNested == Finished => Balanced(events)

\* C3 (no panic): no step of the parser panics.
C3_NoPanic == parser.stopped \in {"", "hang"}

\* C4 (termination): until End(SOURCE_FILE) has been returned, the next
\* call of the iterator returns; no call loops for ever or dies.
C4_Terminates == ~Ended => ~Dead(parser)

\* C5 (error tolerance): in the stream of a finished parse, the non-trivia
\* children of every node that is not error-tagged, the nested ERROR nodes
\* left out, are those of the node's production.
C5_WellFormedOutsideErrors ==
    Ended =>
        LET d == Depths(events)
        IN \A i \in 1..Len(events) :
               (events[i].type = "Begin" /\ events[i].kind # "ERROR")
                   => Production(events[i].kind, ChildKinds(events, d, i))

\* C6 (recovery locality): when the source is a valid source with one
\* garbage token put in, every top-level item of the valid source that
\* the garbage does not overlap is in the stream with the events it has in
\* the parse of the valid source, at its new place.
C6_RecoveryLocal ==
    Ended =>
        \A k \in 0..Len(ImportAndRule), g \in Garbage :
            Source(parser) = Insert(ImportAndRule, k, g) =>
                LET base == Visible(Parse(ImportAndRule, TRUE), whitespaces)
                    d == Depths(base)
                    at == SourceLen(Tokenize(SubSeq(ImportAndRule, 1, k)))
                IN \A i \in 1..Len(base) :
                       (base[i].type = "Begin" /\ d[i] = 2) =>
                           LET item == Subtree(base, d, i)
                               toks == Tokens(item)
                           IN /\ toks[Len(toks)].span[2] <= at
                                     => Occurs(item, events)
                              /\ toks[1].span[1] >= at
                                     => Occurs(Shift(item, Len(Text[g])),
                                               events)

\* C7 (packrat soundness): the events the iterator has returned when it
\* returns nothing more are those of the parse of the same source in which
\* `cached` always runs its parser and never uses the cache.
C7_PackratSound ==
    Finished => events = Visible(Parse(Source(parser), FALSE), whitespaces)

\* C7: a finished parse during which the cache answered a call.
C7_CacheHit == Ended /\ parser.cache_hits > 0

\* C8 (valid sources): the finished parse of a valid sequence of imports
\* and rules has no Error event and no ERROR node, and the non-trivia
\* children of SOURCE_FILE are one IMPORT_STMT or RULE_DECL per item, in
\* the order of the source.
C8_ValidSourcesParse ==
    Finished =>
        \A f \in ValidFiles :
            Source(parser) = Flatten(f) =>
                /\ Ended
                /\ \A i \in 1..Len(events) :
                       /\ events[i].type \notin {"Error", "EndWithError"}
                       /\ events[i].type \in {"Begin", "End"}
                              => events[i].kind # "ERROR"
                /\ ChildKinds(events, Depths(events), 1)
                       = [j \in 1..Len(f) |-> ItemKind(f[j])]

\* C8: the finished parse of a valid source of two items, an import and a
\* rule with tags, metadata and patterns.
C8_TwoItemsParsed ==
    /\ Ended
    /\ Source(parser) = Flatten(<<ImportItem, FullRule>>)
    /\ ChildKinds(events, Depths(events), 1) = <<"IMPORT_STMT", "RULE_DECL">>

\* C9 (`rule r { condition: true and }`): the stream of the finished parse
\* has an ERROR node that begins after the token `and`, and an Error event
\* whose message is "expecting expression, found `}`".
C9_ExpectingExpression ==
    (Ended /\ Source(parser) = TrueAnd) =>
        /\ \E i \in 1..Len(events) :
               /\ events[i].type = "Error"
               /\ events[i].message
                      = "expecting expression, found " \o BQ \o "}" \o BQ
        /\ \E i, j \in 1..Len(events) :
               /\ i < j
               /\ events[i].type = "Token"
               /\ events[i].kind = "AND_KW"
               /\ events[j] = Begin("ERROR")

\* C10 (error aggregation): when A := a? b is parsed on a source whose
\* first token c is neither a nor b, both expects miss at the span of c,
\* and exactly one Error event is produced, for that span, with the
\* message "expecting `a` or `b`, found `c`".
C10_OneMessageForBoth ==
    LET c == peek_non_ws([parser EXCEPT !.pos = 0])
    IN (Ended /\ c # NoToken /\ c.id \notin {AggA, AggB}) =>
           Errors(events) =
               << ErrorEvent("expecting " \o BQ \o Text[AggA] \o BQ \o " or "
                                 \o BQ \o Text[AggB] \o BQ \o ", found "
                                 \o BQ \o Text[c.id] \o BQ,
                             c.span) >>

\* C10: A was parsed on `r rule` (c b) and the message was produced.
C10_MissedTwice ==
    /\ Ended
    /\ Source(parser) = <<"IDENT", "WHITESPACE", "RULE_KW">>
    /\ Errors(events) =
           << ErrorEvent("expecting 'private' or 'rule', found 'r'",
                         <<0, 1>>) >>

(***************************************************************************)
(* The combinators called one after the other on short source texts: the   *)
(* body of a grammar rule is such a sequence of calls.  `events` is the    *)
(* list of the calls made so far.                                          *)
(***************************************************************************)

\* The longest source text the calls are made on.
OpsLen == 3

\* The tokens of those source texts.
OpsAlphabet == {"PRIVATE_KW", "RULE_KW", "IDENT", "WHITESPACE"}

\* The token sets the calls are made with.
OpsSets == {<<"PRIVATE_KW">>, <<"RULE_KW", "IDENT">>}

\* The most calls made on one source text.
MaxCalls == 2

\* The parser at the start of a rule's body, or at the start of a closure
\* that `opt` runs (one optional branch deep).
OpsInit ==
    /\ \E src \in SeqsUpTo(OpsAlphabet, OpsLen), depth \in 0..1 :
           parser = [NewParser(src, TRUE) EXCEPT !.state = "OK",
                                                 !.opt_depth = depth]
    /\ whitespaces = TRUE
    /\ events = <<>>
    /\ NotLinting
    /\ NotComputing

\* A call of the method `op` with the token set `set` that returns q.
OpsCall(op, set, q) ==
    /\ ~Dead(parser)
    /\ Len(events) < MaxCalls
    /\ parser' = q
    /\ events' = Append(events, [op |-> op, set |-> set])
    /\ UNCHANGED <<whitespaces, lint_vars, math_vars>>

\* p.expect(set)
OpsExpect == \E set \in OpsSets : OpsCall("expect", set, expect(parser, set))

\* p.opt(|p| p.expect(set))
OpsOptExpect ==
    \E set \in OpsSets : OpsCall("opt_expect", set, opt_expect(parser, set))

\* p.if_next(set, |p| p.expect(set))
OpsIfNext ==
    \E set \in OpsSets :
        OpsCall("if_next", set,
                if_next(parser, set, LAMBDA q: expect(q, set)))

\* p.recover_and_sync(set)
OpsRecoverAndSync ==
    \E set \in OpsSets :
        OpsCall("recover_and_sync", set, recover_and_sync(parser, set))

OpsNext == OpsExpect \/ OpsOptExpect \/ OpsIfNext \/ OpsRecoverAndSync

SpecOps == OpsInit /\ [][OpsNext]_vars

\* The call that led to the next state.
LastCall == events'[Len(events')]

\* The step is a call of `op`.
IsCall(op) == events' # events /\ LastCall.op = op

\* The Token events of the tokens from+1..to of the parser's source text.
TokenEvents(p, from, to) ==
    [i \in 1..(to - from) |->
        TokenEvent(p.tokens[from + i].id, p.tokens[from + i].span)]

\* The index of the last token of the trivia the parser is in front of.
AfterTrivia(p) ==
    CHOOSE i \in p.pos..Len(p.tokens) :
        /\ \A k \in (p.pos + 1)..i : p.tokens[k].id \in TriviaIds
        /\ i < Len(p.tokens) => p.tokens[i + 1].id \notin TriviaIds

\* The index of the last token before the first token of `set` after
\* index `from`, or of the last token of all.
BeforeMember(p, from, set) ==
    CHOOSE i \in from..Len(p.tokens) :
        /\ \A k \in (from + 1)..i : contains(set, p.tokens[k]) = NoKind
        /\ i < Len(p.tokens) => contains(set, p.tokens[i + 1]) # NoKind

\* What a call appended to the output, Error events left out.
Appended(p, q) ==
    SelectSeq(SubSeq(q.output, Len(p.output) + 1, Len(q.output)),
              LAMBDA e: e.type # "Error")

\* Two parsers agree on the token position, the state, the error maps and
\* the output.
SameOutcome(a, b) ==
    /\ a.pos = b.pos
    /\ a.mode = b.mode
    /\ a.state = b.state
    /\ a.stopped = b.stopped
    /\ a.expected_token_errors = b.expected_token_errors
    /\ a.unexpected_token_errors = b.unexpected_token_errors
    /\ a.pending_errors = b.pending_errors
    /\ a.output = b.output

\* C17 (if_next is opt): in every state the calls reach, for every token
\* set T, if_next(T, |p| p.expect(T)) and opt(|p| p.expect(T)) leave the
\* same token position, state, error maps and output.
C17_IfNextIsOpt ==
    \A set \in OpsSets :
        SameOutcome(if_next(parser, set, LAMBDA q: expect(q, set)),
                    opt(parser, LAMBDA q: expect(q, set)))

C16_ExpectContract ==
    [][(IsCall("expect") /\ parser.state = "OK" /\ parser.not_depth = 0) =>
           LET set == LastCall.set
               token == peek_non_ws(parser)
               lead == AfterTrivia(parser)
               span == IF token = NoToken
                       THEN <<SourceLen(parser.tokens),
                              SourceLen(parser.tokens)>>
                       ELSE token.span
           IN IF token # NoToken /\ contains(set, token) # NoKind
              THEN /\ parser'.state = "OK"
                   /\ parser'.pos = lead + 1
                   /\ Appended(parser, parser') =
                          TokenEvents(parser, parser.pos, lead + 1)
              ELSE /\ parser'.state = "Failure"
                   /\ parser'.pos = parser.pos
                   /\ parser'.output = parser.output
                   /\ IF parser.opt_depth > 0
                      THEN /\ span \in DOMAIN parser'.expected_token_errors
                           /\ \A i \in 1..Len(set) :
                                  \E k \in 1..Len(parser'.expected_token_errors[span]) :
                                      parser'.expected_token_errors[span][k]
                                          = description(token_id(set[i]))
                      ELSE \E k \in 1..Len(parser'.pending_errors) :
                               parser'.pending_errors[k].span = span]_vars

\* The number of events of a stream that are the event e.
Count(evs, e) == Cardinality({i \in 1..Len(evs) : evs[i] = e})

\* C12 (lifecycle): the first event returned is Begin(SOURCE_FILE);
\* End(SOURCE_FILE) is returned exactly once, as the last event, when no
\* token is left and the output buffer is empty; after it every call
\* returns None and changes nothing.
C12_Lifecycle ==
    /\ events # <<>> => events[1] = Begin("SOURCE_FILE")
    /\ \A i \in 1..Len(events) :
           events[i] = End("SOURCE_FILE") => (i = Len(events) /\ Ended)
    /\ Count(events, End("SOURCE_FILE")) <= 1
    /\ Ended =>
           /\ ~has_more(parser)
           /\ parser.output = <<>>
           /\ events_next(parser, whitespaces)
                  = [parser |-> parser, event |-> NoEvent]
    /\ Finished => Count(events, End("SOURCE_FILE")) = 1

\* C13 (whitespace toggle): the events the iterator has returned when it
\* returns nothing more are, with whitespaces(true), every event of the
\* parse and, with whitespaces(false), those events without the Token
\* events of kind WHITESPACE, in the same order.
C13_WhitespaceToggle ==
    Finished => events = Visible(Parse(Source(parser), TRUE), whitespaces)

\* C13: `rule r { condition: true }` was parsed with whitespaces(false):
\* seven of its twelve tokens were returned.
C13_WhitespacesLeftOut ==
    /\ Ended
    /\ ~whitespaces
    /\ Source(parser) = SimpleRule
    /\ Len(Tokens(events)) = 7
    /\ Len(Tokens(Parse(SimpleRule, TRUE))) = 12

\* C14 (one message per span): no two Error events of the stream have the
\* same span.
C14_OneErrorPerSpan ==
    \A i, j \in 1..Len(events) :
        (i < j /\ events[i].type = "Error" /\ events[j].type = "Error")
            => events[i].span # events[j].span

\* C15 (errors where they were raised): an error is raised for a token
\* that has not been consumed yet, so when its Error event comes before
\* any Token event appended after it was raised, every Token event in
\* front of an Error event is that of a token in front of the error's span.
C15_ErrorsWhereRaised ==
    \A i, j \in 1..Len(events) :
        (i < j /\ events[i].type = "Token" /\ events[j].type = "Error")
            => events[i].span[1] < events[j].span[1]


(***************************************************************************)
(* The linters (src/lib/src/compiler/linters.rs).                          *)
(*                                                                         *)
(* A linter is a record of the fields of its struct, built by the          *)
(* constructor and the builder methods of the source; `check` is an        *)
(* operator from a linter and an ast::Rule to a LinterResult.  Option<T>   *)
(* is a sequence of at most one element: <<>> is None, <<x>> is Some(x).   *)
(* A text (a rule name, a regular expression) is a sequence of characters. *)
(***************************************************************************)

\* Option::unwrap_or
unwrap_or(option, default) == IF option = <<>> THEN default ELSE option[1]

\* The rules.  ast::Rule is not part of the modelled sources; a rule is the
\* AST of the text
\*     rule <name> { meta: <identifier> = <value> ... condition: true }
\* with the span of every identifier and of every value at its place in that
\* text.
NameChars == {"A", "f"}
NameLen == 2
Names == SeqsUpTo(NameChars, NameLen) \ {<<>>}

MetaIdentifiers == {"author", "date"}
MetaValueKinds == {"String", "Bool"}
MetaLen == 2
MetaEntries == [identifier : MetaIdentifiers, value : MetaValueKinds]

\* The number of characters of a metadata identifier, and of a value of
\* each kind ("x" and false).
IdentWidth(identifier) == IF identifier = "author" THEN 6 ELSE 4
ValueWidth(kind) == IF kind = "String" THEN 3 ELSE 5

\* ast::Meta for each entry of a meta block whose first entry starts at `at`.
RECURSIVE Metas(_, _)
Metas(entries, at) ==
    IF entries = <<>> THEN <<>>
    ELSE LET e == Head(entries)
             value_start == at + IdentWidth(e.identifier) + 3
             value_end == value_start + ValueWidth(e.value)
         IN  <<[identifier |-> [name |-> e.identifier,
                                span |-> <<at, at + IdentWidth(e.identifier)>>],
                value |-> [kind |-> e.value,
                           span |-> <<value_start, value_end>>]]>>
             \o Metas(Tail(entries), value_end + 1)

\* ast::Rule: `meta` is None for a rule without a meta block.
ast_Rule(name, meta) ==
    [identifier |-> [name |-> name, span |-> <<5, 5 + Len(name)>>],
     meta |-> IF meta = <<>> THEN <<>>
              ELSE <<Metas(meta[1], 5 + Len(name) + 9)>>]

RuleAsts ==
    {ast_Rule(name, meta) :
        name \in Names,
        meta \in {<<>>} \cup
                 {<<entries>> : entries \in SeqsUpTo(MetaEntries, MetaLen) \ {<<>>}}}

\* WithSpan::span
span(node) == node.span

\* rule.meta.iter().flatten(): the entries of the meta block, if any.
flatten(meta) == IF meta = <<>> THEN <<>> ELSE meta[1]

\* The regular expressions (the regex crate): literals, `.`, `*` after a
\* literal or `.`, and the anchors `^` and `$`.
RegexChars == NameChars \cup {".", "*", "^", "$"}
RegexLen == 2
Patterns ==
    {r \in SeqsUpTo(RegexChars, RegexLen) :
        \A i \in 2..Len(r) : r[i] = "*" => r[i - 1] \notin {"^", "$", "*"}}

RECURSIVE Atoms(_)
Atoms(r) ==
    IF r = <<>> THEN <<>>
    ELSE IF Len(r) >= 2 /\ r[2] = "*"
         THEN <<[c |-> r[1], star |-> TRUE]>> \o Atoms(SubSeq(r, 3, Len(r)))
         ELSE <<[c |-> r[1], star |-> FALSE]>> \o Atoms(Tail(r))

\* Regex::new: a `*` with nothing before it is a syntax error.
Regex_new(regex) ==
    IF regex # <<>> /\ regex[1] = "*"
    THEN [ok |-> FALSE, error |-> "repetition operator missing expression"]
    ELSE [ok |-> TRUE, value |-> Atoms(regex)]

\* The atoms match some text that starts after the first i characters of s.
RECURSIVE match_here(_, _, _)
match_here(atoms, s, i) ==
    IF atoms = <<>> THEN TRUE
    ELSE LET a == Head(atoms)
             rest == Tail(atoms)
             accepts == i < Len(s) /\ (a.c = "." \/ a.c = s[i + 1])
         IN  CASE a.c = "^" -> i = 0 /\ match_here(rest, s, i)
               [] a.c = "$" -> i = Len(s) /\ match_here(rest, s, i)
               [] a.star -> \/ match_here(rest, s, i)
                            \/ accepts /\ match_here(atoms, s, i + 1)
               [] OTHER -> accepts /\ match_here(rest, s, i + 1)

\* Regex::is_match: the regex matches somewhere in the text.
is_match(compiled_regex, text) ==
    \E i \in 0..Len(text) : match_here(compiled_regex, text, i)

\* LinterResult
Ok == [type |-> "Ok"]
Warn(warning) == [type |-> "Warn", report |-> warning]
Err(error) == [type |-> "Err", report |-> error]

\* warnings::InvalidRuleName::build and errors::InvalidRuleName::build
InvalidRuleName(at, regex) ==
    [code |-> "invalid_rule_name", span |-> at, regex |-> regex]

\* warnings::InvalidMetadata::build and errors::InvalidMetadata::build
InvalidMetadata(name, at, message) ==
    [code |-> "invalid_metadata", span |-> at, name |-> name,
     message |-> message]

\* warnings::MissingMetadata::build and errors::MissingMetadata::build
MissingMetadata(at, identifier, note) ==
    [code |-> "missing_metadata", span |-> at, identifier |-> identifier,
     note |-> note]

\* RuleName::new
RuleName_new(regex) ==
    LET compiled_regex == Regex_new(regex)
    IN  IF ~compiled_regex.ok THEN compiled_regex
        ELSE [ok |-> TRUE,
              value |-> [type |-> "RuleName", regex |-> regex,
                         compiled_regex |-> compiled_regex.value,
                         error |-> FALSE]]

\* RuleName::error
RuleName_error(self, yes) == [self EXCEPT !.error = yes]

\* fn rule_name
rule_name(regex) == RuleName_new(regex)

\* RuleName::check that never turns the warning into an error.
RuleName_check_warning(self, r) ==
    IF ~is_match(self.compiled_regex, r.identifier.name)
    THEN Warn(InvalidRuleName(span(r.identifier), self.regex))
    ELSE Ok

\* <RuleName as LinterInternal>::check
RuleName_check(self, r) ==
    IF ~is_match(self.compiled_regex, r.identifier.name)
    THEN IF self.error
         THEN Err(InvalidRuleName(span(r.identifier), self.regex))
         ELSE Warn(InvalidRuleName(span(r.identifier), self.regex))
    ELSE Ok

\* Metadata::new
Metadata_new(identifier) ==
    [type |-> "Metadata", identifier |-> identifier, predicate |-> <<>>,
     required |-> FALSE, error |-> FALSE, message |-> <<>>, note |-> <<>>]

\* Metadata::required
Metadata_required(self, yes) == [self EXCEPT !.required = yes]

\* Metadata::error
Metadata_error(self, yes) == [self EXCEPT !.error = yes]

\* Metadata::validator
Metadata_validator(self, predicate, message) ==
    [self EXCEPT !.predicate = <<predicate>>, !.message = <<message>>]

\* fn metadata
metadata(identifier) == Metadata_new(identifier)

\* The validators: the closures that decide on the kind of the value, as
\* `matches!(meta.value, MetaValue::String(_))` does.
Predicates == [MetaValueKinds -> BOOLEAN]
Messages == {"author must be a string", "invalid date"}

\* The entry carries the identifier of the linter; and a linter that takes
\* every entry for its own.
named_any(self, meta) == TRUE
named(self, meta) == meta.identifier.name = self.identifier

\* The entry has the identifier of the linter and its validator rejects it.
rejected(self, meta) ==
    /\ named(self, meta)
    /\ self.predicate # <<>>
    /\ ~self.predicate[1][meta.value.kind]

\* The diagnostic for an entry the validator rejects.
invalid(self, meta) ==
    LET report == InvalidMetadata(meta.identifier.name, span(meta.value),
                                  unwrap_or(self.message, "invalid metadata"))
    IN  IF self.error THEN Err(report) ELSE Warn(report)

\* The loop of Metadata::check that carries on after an entry its validator
\* rejects, and returns for the last of them.
RECURSIVE check_metas_last(_, _, _)
check_metas_last(self, metas, found) ==
    IF metas = <<>> THEN [returned |-> <<>>, found |-> found]
    ELSE LET meta == metas[Len(metas)]
             before == check_metas_last(self, SubSeq(metas, 1, Len(metas) - 1),
                                        found)
         IN  IF rejected(self, meta)
             THEN [returned |-> <<invalid(self, meta)>>, found |-> before.found]
             ELSE [returned |-> before.returned,
                   found |-> before.found \/ named(self, meta)]

\* The loop of Metadata::check over the entries yet to visit: what it
\* returned from inside the loop, if it did, and `found` after it.
RECURSIVE check_metas(_, _, _)
check_metas(self, metas, found) ==
    IF metas = <<>> THEN [returned |-> <<>>, found |-> found]
    ELSE LET meta == Head(metas)
         IN  IF rejected(self, meta)
             THEN [returned |-> <<invalid(self, meta)>>, found |-> found]
             ELSE check_metas(self, Tail(metas),
                              found \/ named(self, meta))

\* Metadata::check that looks at `required` first: an entry the validator
\* rejects counts as not found.
Metadata_check_required_first(self, r) ==
    LET loop == check_metas(self, flatten(r.meta), FALSE)
        report == MissingMetadata(span(r.identifier), self.identifier,
                                  self.note)
    IN  IF self.required /\ ~loop.found
        THEN IF self.error THEN Err(report) ELSE Warn(report)
        ELSE IF loop.returned # <<>> THEN loop.returned[1]
        ELSE Ok

\* <Metadata as LinterInternal>::check
Metadata_check(self, r) ==
    LET loop == check_metas(self, flatten(r.meta), FALSE)
        report == MissingMetadata(span(r.identifier), self.identifier,
                                  self.note)
    IN  IF loop.returned # <<>> THEN loop.returned[1]
        ELSE IF self.required /\ ~loop.found
             THEN IF self.error THEN Err(report) ELSE Warn(report)
             ELSE Ok

(***************************************************************************)
(* The linters at work: a rule is handed to a linter that was built with   *)
(* the constructor and any of the builder methods.                         *)
(***************************************************************************)

\* A builder method that is called with `yes`, or not called at all.
Flags == {<<>>, <<TRUE>>, <<FALSE>>}

LintInit ==
    /\ parser = NewParser(<<>>, TRUE)
    /\ whitespaces = TRUE
    /\ events = <<>>
    /\ rule \in RuleAsts
    /\ linted = NoCheck
    /\ NotComputing

\* What a call of linter.check(rule) leaves.
Checked(linter, result) ==
    /\ linted' = [linter |-> linter, result |-> result]
    /\ UNCHANGED <<parser_vars, rule, math_vars>>

\* rule_name(regex)?.error(yes).check(rule); a rule is checked once.
RuleNameCheck ==
    /\ linted = NoCheck
    /\ \E regex \in Patterns, error \in Flags :
           /\ rule_name(regex).ok
           /\ LET new == rule_name(regex).value
                  linter == IF error = <<>> THEN new
                            ELSE RuleName_error(new, error[1])
              IN  Checked(linter, RuleName_check(linter, rule))

\* metadata(identifier).required(yes).error(yes).validator(p, m).check(rule)
MetadataCheck ==
    /\ linted = NoCheck
    /\ \E identifier \in MetaIdentifiers, required \in Flags, error \in Flags,
          validator \in {<<>>} \cup
                        {<<p, m>> : p \in Predicates, m \in Messages} :
           LET new == metadata(identifier)
               a == IF required = <<>> THEN new
                    ELSE Metadata_required(new, required[1])
               b == IF error = <<>> THEN a ELSE Metadata_error(a, error[1])
               linter == IF validator = <<>> THEN b
                         ELSE Metadata_validator(b, validator[1], validator[2])
           IN  Checked(linter, Metadata_check(linter, rule))

LintNext == RuleNameCheck \/ MetadataCheck

SpecLint == LintInit /\ [][LintNext]_vars


(***************************************************************************)
(* The contracts of the linters.                                           *)
(***************************************************************************)

\* The linter that checked the rule, what it returned, and the entries of
\* the rule's meta block that carry the identifier of the linter.
IsLinted(type) == linted.linter.type = type
Severity == IF linted.linter.error THEN "Err" ELSE "Warn"
Reported(code) ==
    linted.result.type # "Ok" /\ linted.result.report.code = code
OwnEntries ==
    {i \in 1..Len(flatten(rule.meta)) :
        flatten(rule.meta)[i].identifier.name = linted.linter.identifier}
RejectedEntries ==
    {i \in OwnEntries :
        /\ linted.linter.predicate # <<>>
        /\ ~linted.linter.predicate[1][flatten(rule.meta)[i].value.kind]}

\* C18: RuleName.check returns Ok exactly when the regular expression
\* matches the rule identifier; otherwise it returns one invalid_rule_name
\* diagnostic located at the span of the rule identifier, a warning when the
\* error flag is false (the default) and an error when it is true.
C18_RuleNameCheck ==
    IsLinted("RuleName") =>
        IF is_match(Regex_new(linted.linter.regex).value, rule.identifier.name)
        THEN linted.result.type = "Ok"
        ELSE /\ linted.result.type = Severity
             /\ Reported("invalid_rule_name")
             /\ linted.result.report.span = rule.identifier.span

\* C18, its case: rule_name("^A").error(true) checked the rule `fA`, whose
\* name the regex does not match, and returned an error at the name.
C18_ErrorAtRuleName ==
    /\ IsLinted("RuleName")
    /\ linted.linter.regex = <<"^", "A">>
    /\ linted.linter.error
    /\ rule.identifier.name = <<"f", "A">>
    /\ linted.result.type = "Err"
    /\ linted.result.report.code = "invalid_rule_name"
    /\ linted.result.report.span = <<5, 7>>

\* C19: on a rule with no meta entry named `identifier` (a rule with no meta
\* block is one), Metadata.check returns a missing_metadata diagnostic at
\* the span of the rule identifier when `required` is true, a warning by
\* default and an error with error(true), and returns Ok when `required` is
\* false.
C19_MissingMetadata ==
    (IsLinted("Metadata") /\ OwnEntries = {}) =>
        IF linted.linter.required
        THEN /\ linted.result.type = Severity
             /\ Reported("missing_metadata")
             /\ linted.result.report.span = rule.identifier.span
        ELSE linted.result.type = "Ok"

\* C19, its case: metadata("author").required(true) checked a rule whose
\* only meta entry is a `date`, and returned a warning at the rule name.
C19_WarningForOtherEntry ==
    /\ IsLinted("Metadata")
    /\ linted.linter.identifier = "author"
    /\ linted.linter.required
    /\ ~linted.linter.error
    /\ rule.meta # <<>>
    /\ Len(flatten(rule.meta)) = 1
    /\ flatten(rule.meta)[1].identifier.name = "date"
    /\ linted.result.type = "Warn"
    /\ linted.result.report.code = "missing_metadata"
    /\ linted.result.report.span = rule.identifier.span

\* What Metadata.check returned is invalid_metadata for entry i: located at
\* the span of its value, with the message of the validator.
InvalidAt(i) ==
    /\ Reported("invalid_metadata")
    /\ linted.result.report.span = flatten(rule.meta)[i].value.span
    /\ linted.result.report.message = linted.linter.message[1]

\* No invalid_metadata without a validator, or when the predicate holds of
\* every entry named `identifier`.
NoneRejectedNoneInvalid ==
    RejectedEntries = {} => ~Reported("invalid_metadata")

\* C20, as stated: for a meta entry named `identifier` that the validator
\* rejects, Metadata.check returns invalid_metadata located at the span of
\* that entry's value and carrying the validator's message; without a
\* validator, or when the predicate holds of every such entry, it returns
\* no invalid_metadata.
C20_InvalidAtEveryRejected ==
    IsLinted("Metadata") =>
        /\ \A i \in RejectedEntries : InvalidAt(i)
        /\ NoneRejectedNoneInvalid

\* C20, amended: when the validator rejects some meta entry named
\* `identifier`, Metadata.check returns invalid_metadata located at the
\* span of the value of the first such entry, carrying the validator's
\* message; without a validator, or when the predicate holds of every such
\* entry, it returns no invalid_metadata.
C20_InvalidAtFirstRejected ==
    IsLinted("Metadata") =>
        /\ RejectedEntries # {} =>
               InvalidAt(CHOOSE i \in RejectedEntries :
                             \A j \in RejectedEntries : i <= j)
        /\ NoneRejectedNoneInvalid

\* C20, its case: the validator rejects two entries named `identifier`, and
\* the diagnostic is at the value of the first, not at that of the second.
C20_TwoRejected ==
    /\ IsLinted("Metadata")
    /\ RejectedEntries = {1, 2}
    /\ InvalidAt(1)
    /\ ~InvalidAt(2)


(***************************************************************************)
(* The grammar of the condition.                                           *)
(***************************************************************************)

\* A stream without an Error event, an ERROR node or an error-tagged node.
ErrorFree(evs) ==
    \A i \in 1..Len(evs) :
        /\ evs[i].type \notin {"Error", "EndWithError"}
        /\ evs[i].type \in {"Begin", "End"} => evs[i].kind # "ERROR"

\* C29 (`$a at 66 in (66..66)`): a pattern identifier is followed by at
\* most one of `at EXPR` and `in RANGE`; the finished parse of a condition
\* with both is not free of errors.
C29_AtOrInNotBoth ==
    (Ended /\ Source(parser) = AtAndIn) => ~ErrorFree(events)

\* C30 (`r(,r)`): the arguments of a call are none, or a BOOLEAN_EXPR and
\* then `,` BOOLEAN_EXPR any number of times; the finished parse of a call
\* whose arguments start with a comma is not free of errors.
C30_NoLeadingComma ==
    (Ended /\ Source(parser) = LeadingComma) => ~ErrorFree(events)


(***************************************************************************)
(* The laziness of the iterator.                                           *)
(***************************************************************************)

\* The number of nodes a stream opens at its top.
TopLevelNodes(evs) ==
    Cardinality({i \in 1..Len(evs) :
                    evs[i].type = "Begin" /\ Depths(evs)[i] = 1})

\* C25 (one item per call): whenever a call of next() returns,
\* pending_errors, expected_token_errors and the failure cache are empty
\* and the state is OK or EndOfInput; the call runs the grammar only when
\* the output buffer is empty, and then the events it produced open at
\* most one top-level node.  (With the whitespaces left out a step is
\* several calls; the single calls are the steps with the whitespaces.)
C25_OneItemPerCall ==
    [][(events' # events /\ ~Dead(parser')) =>
           /\ parser'.pending_errors = <<>>
           /\ parser'.expected_token_errors = <<>>
           /\ parser'.cache = {}
           /\ parser'.state \in {"OK", "EndOfInput"}
           /\ whitespaces =>
                  LET produced == <<events'[Len(events')]>> \o parser'.output
                  IN IF parser.output # <<>> \/ parser.state = "StartOfInput"
                     THEN /\ parser'.pos = parser.pos
                          /\ parser'.cache_hits = parser.cache_hits
                          /\ produced = parser.output
                                 \/ parser.state = "StartOfInput"
                     ELSE TopLevelNodes(produced) <= 1]_vars

\* C25, its case: the first call after Begin(SOURCE_FILE) parsed the rule
\* `rule r { condition: true and }`, which fails after `and`: the output
\* buffer holds the rest of the item with its Error event, and the state
\* is OK.
C25_FailedItemBuffered ==
    /\ Source(parser) = TrueAnd
    /\ Len(events) = 2
    /\ parser.state = "OK"
    /\ parser.pos = Len(parser.tokens)
    /\ \E i \in 1..Len(parser.output) : parser.output[i].type = "Error"
    /\ parser.cache = {}
    /\ parser.pending_errors = <<>>


(***************************************************************************)
(* The commit points.                                                      *)
(***************************************************************************)

\* C22 (commit guarantee): once expect has matched a token at opt_depth 0,
\* no restore_bookmark moves the token cursor to the left of that token,
\* on any input and any path of the grammar.
C22_NoWayBack == ~parser.went_back

\* C22, its case: `rule r{condition:66 of(true)}` is parsed to the end;
\* tokens were committed, the alternatives of the condition and the `not`
\* of of_expr restored bookmarks after that, and none went back too far.
C22_RestoredAfterCommit ==
    /\ Ended
    /\ Source(parser) = OfTuple
    /\ ErrorFree(events)
    /\ parser.committed = Len(parser.tokens)
    /\ parser.restores > 0
    /\ ~parser.went_back


(***************************************************************************)
(* The error maps at the calls.                                            *)
(***************************************************************************)

\* The step is a call of expect that matched a token outside the optional
\* branches.
IsCommit ==
    /\ IsCall("expect")
    /\ parser.state = "OK"
    /\ parser.opt_depth = 0
    /\ parser'.pos > parser.pos

\* C21 (flush at the commit points): after an expect that matched at
\* opt_depth 0, and after recover_and_sync, the pending errors have been
\* moved to the output and pending_errors, expected_token_errors and
\* unexpected_token_errors are empty.  (The third commit point, the end
\* of a top-level item, is a step of the iterator.)
C21_FlushedAtCommitPoints ==
    [][(IsCommit \/ IsCall("recover_and_sync")) =>
           /\ parser'.pending_errors = <<>>
           /\ parser'.expected_token_errors = <<>>
           /\ parser'.unexpected_token_errors = {}
           /\ \A i \in 1..Len(parser.pending_errors) :
                  \E k \in 1..Len(parser'.output) :
                      parser'.output[k] =
                          ErrorEvent(parser.pending_errors[i].message,
                                     parser.pending_errors[i].span)]_vars

\* The descriptions of a token set are recorded for a span.
Recorded(p, set, at) ==
    /\ at \in DOMAIN p.expected_token_errors
    /\ \A i \in 1..Len(set) :
           \E k \in 1..Len(p.expected_token_errors[at]) :
               p.expected_token_errors[at][k] = description(token_id(set[i]))

\* C24 as stated (if_next records always): if_next(set, p) entered in OK
\* in front of a token leaves the descriptions of `set` recorded in
\* expected_token_errors for the span of that token, whether the token is
\* in `set` or not.
C24_IfNextRecordsAlways ==
    [][(IsCall("if_next") /\ parser.state = "OK"
            /\ peek_non_ws(parser) # NoToken) =>
           Recorded(parser', LastCall.set, peek_non_ws(parser).span)]_vars

\* C24, amended: if_next(set, p) entered in OK in front of a token that
\* is not in `set` records the descriptions of `set` for the span of that
\* token and does nothing else; in front of a token of `set` it records
\* nothing and does what p does after the trivia.
C24_IfNextRecordsOnMiss ==
    [][(IsCall("if_next") /\ parser.state = "OK"
            /\ peek_non_ws(parser) # NoToken) =>
           LET set == LastCall.set
               token == peek_non_ws(parser)
           IN IF contains(set, token) = NoKind
              THEN /\ Recorded(parser', set, token.span)
                   /\ parser'.pos = parser.pos
                   /\ parser'.output = parser.output
                   /\ parser'.state = "OK"
                   /\ parser'.pending_errors = parser.pending_errors
              ELSE /\ parser' = expect(trivia(parser), set)
                   /\ ~Recorded(parser', set, token.span)]_vars

\* C24, its case: if_next(`private`, ..) was called at opt_depth 1 in
\* front of `private`, after an opt_expect(`rule`, identifier) that
\* missed there: the token is consumed and `private` is not among the
\* descriptions recorded for its span.
C24_HitNotRecorded ==
    /\ Len(events) = 2
    /\ events[1] = [op |-> "opt_expect", set |-> <<"RULE_KW", "IDENT">>]
    /\ events[2] = [op |-> "if_next", set |-> <<"PRIVATE_KW">>]
    /\ Source(parser) = <<"PRIVATE_KW">>
    /\ parser.opt_depth = 1
    /\ parser.pos = 1
    /\ <<0, 7>> \in DOMAIN parser.expected_token_errors
    /\ ~Recorded(parser, <<"PRIVATE_KW">>, <<0, 7>>)


(***************************************************************************)
(* The combinators that roll back, called on their own: opt, not and a     *)
(* group of two alternatives, each with a closure that expects one token   *)
(* or two in a row, in front of every short source text, outside and       *)
(* inside an optional branch.  `events` is the log of the calls.           *)
(***************************************************************************)

\* The closures |p| p.expect(a) and |p| p.expect(a).expect(b), each the
\* sequence of its token sets.
CombBodies ==
    { << <<"PRIVATE_KW">> >>,
      << <<"RULE_KW", "IDENT">> >>,
      << <<"RULE_KW", "IDENT">>, <<"PRIVATE_KW">> >>,
      << <<"PRIVATE_KW">>, <<"RULE_KW", "IDENT">> >> }

\* The closure of the token sets `sets`, run on the parser it is handed.
closure(p, sets) ==
    IF Len(sets) = 1 THEN expect(p, sets[1])
    ELSE expect(expect(p, sets[1]), sets[2])

\* The longest source text, and the most calls made on one parser.
CombLen == 3
CombCalls == 1

CombInit ==
    /\ \E src \in SeqsUpTo(OpsAlphabet, CombLen), depth \in 0..1 :
           parser = [NewParser(src, TRUE) EXCEPT !.state = "OK",
                                                 !.opt_depth = depth]
    /\ whitespaces = TRUE
    /\ events = <<>>
    /\ NotLinting
    /\ NotComputing

\* A call of the combinator `op` with the closures `bodies` that returns q.
CombCall(op, bodies, q) ==
    /\ parser' = q
    /\ events' = Append(events, [op |-> op, bodies |-> bodies])
    /\ UNCHANGED <<whitespaces, lint_vars, math_vars>>

\* p.opt(body)
CombOpt ==
    /\ ~Dead(parser)
    /\ Len(events) < CombCalls
    /\ \E body \in CombBodies :
           CombCall("opt", <<body>>,
                    opt(parser, LAMBDA q: closure(q, body)))

\* p.not(body)
CombNot ==
    /\ ~Dead(parser)
    /\ Len(events) < CombCalls
    /\ \E body \in CombBodies :
           CombCall("not", <<body>>,
                    not(parser, LAMBDA q: closure(q, body)))

\* p.begin_alt().alt(first).alt(second).end_alt()
CombAlt ==
    /\ ~Dead(parser)
    /\ Len(events) < CombCalls
    /\ \E first \in CombBodies, second \in CombBodies :
           CombCall("alt", <<first, second>>,
                    end_alt(alt(alt(begin_alt(parser),
                                    LAMBDA q: closure(q, first)),
                                LAMBDA q: closure(q, second))))

CombNext == CombOpt \/ CombNot \/ CombAlt

SpecComb == CombInit /\ [][CombNext]_vars

\* The tokens in front of the parser that are not trivia, with their
\* places in the source text.
Ahead(p) ==
    SelectSeq([i \in 1..(Len(p.tokens) - p.pos) |->
                  [index |-> p.pos + i, token |-> p.tokens[p.pos + i]]],
              LAMBDA x: ~is_trivia(x.token))

\* The closure finds its tokens in front of the parser: the next
\* non-trivia tokens are there and each is of the set expected in its
\* place.
Accepts(p, body) ==
    /\ Len(body) <= Len(Ahead(p))
    /\ \A i \in 1..Len(body) :
           contains(body[i], Ahead(p)[i].token) # NoKind

\* The closure has consumed its tokens and the trivia in front of each,
\* and the output has the Token event of each of them at its end.
Kept(p, q, body) ==
    /\ q.pos = Ahead(p)[Len(body)].index
    /\ q.output = p.output \o TokenEvents(p, p.pos, q.pos)

\* Nothing is consumed and the output is as it was.
RolledBack(p, q) ==
    /\ q.pos = p.pos
    /\ q.mode = p.mode
    /\ q.output = p.output


\* C26: opt called in the OK state returns in the OK state; when the closure
\* does not find its tokens, the token position and the output are exactly
\* as on entry, the trivia in front of the missing token included; when it
\* finds them, the tokens it consumed and their events are kept.
C26_OptAlwaysOk ==
    [][(IsCall("opt") /\ parser.state = "OK") =>
           LET body == LastCall.bodies[1]
           IN /\ parser'.state = "OK"
              /\ IF Accepts(parser, body)
                 THEN Kept(parser, parser', body)
                 ELSE RolledBack(parser, parser')]_vars

\* An opt whose closure consumed trivia and a first token, missed the
\* second, and left nothing of it behind.
C26_TriviaRolledBack ==
    /\ events # <<>>
    /\ events[1].op = "opt"
    /\ Len(events[1].bodies[1]) = 2
    /\ parser.state = "OK"
    /\ parser.pos = 0
    /\ parser.output = <<>>
    /\ Len(parser.tokens) = 3
    /\ parser.tokens[1].id = "WHITESPACE"
    /\ contains(events[1].bodies[1][1], parser.tokens[2]) # NoKind
    /\ contains(events[1].bodies[1][2], parser.tokens[3]) = NoKind

\* C27: not called in the OK state returns Failure exactly when the closure
\* finds its tokens and OK exactly when it does not, with the token
\* position and the output as on entry in both cases; an expect whose
\* token matches inside a not ends in Failure, and inside an optional
\* branch, where the grammar calls not, the span of the token stays
\* recorded as unexpected.
C27_NotInverts ==
    [][(IsCall("not") /\ parser.state = "OK") =>
           LET body == LastCall.bodies[1]
           IN /\ parser'.state = "Failure" <=> Accepts(parser, body)
              /\ parser'.state = "OK" <=> ~Accepts(parser, body)
              /\ RolledBack(parser, parser')
              /\ (Accepts(parser, body) /\ parser.opt_depth > 0) =>
                     \A i \in 1..Len(body) :
                         Ahead(parser)[i].token.span
                             \in parser'.unexpected_token_errors]_vars

\* A not inside an optional branch whose closure found its token behind
\* trivia: Failure, nothing consumed, the span recorded as unexpected.
C27_MatchedInsideNot ==
    /\ events # <<>>
    /\ events[1].op = "not"
    /\ parser.state = "Failure"
    /\ parser.opt_depth = 1
    /\ parser.pos = 0
    /\ parser.output = <<>>
    /\ Len(parser.tokens) >= 2
    /\ parser.tokens[1].id = "WHITESPACE"
    /\ parser.tokens[2].span \in parser.unexpected_token_errors

\* C28: a group of alternatives entered in the OK state tries them from
\* left to right; the first one that finds its tokens wins and no later
\* one is run; an alternative that fails is rolled back before the next
\* one is tried; when none succeeds the group ends in Failure with the
\* token position and the output exactly as at begin_alt.  The group ends:
\* the parser is not stopped inside it.
C28_FirstAlternativeWins ==
    [][(IsCall("alt") /\ parser.state = "OK") =>
           LET first == LastCall.bodies[1]
               second == LastCall.bodies[2]
           IN /\ ~Dead(parser')
              /\ IF Accepts(parser, first)
                 THEN /\ parser'.state = "OK"
                      /\ Kept(parser, parser', first)
                      /\ parser'.expected_token_errors
                             = parser.expected_token_errors
                 ELSE IF Accepts(parser, second)
                 THEN /\ parser'.state = "OK"
                      /\ Kept(parser, parser', second)
                 ELSE /\ parser'.state = "Failure"
                      /\ RolledBack(parser, parser')]_vars

\* C28 without the calls that stop the parser.
C28_FirstAlternativeWinsUnlessStopped ==
    [][(IsCall("alt") /\ parser.state = "OK" /\ ~Dead(parser')) =>
           LET first == LastCall.bodies[1]
               second == LastCall.bodies[2]
           IN IF Accepts(parser, first)
              THEN /\ parser'.state = "OK"
                   /\ Kept(parser, parser', first)
                   /\ parser'.expected_token_errors
                          = parser.expected_token_errors
              ELSE IF Accepts(parser, second)
              THEN /\ parser'.state = "OK"
                   /\ Kept(parser, parser', second)
              ELSE /\ parser'.state = "Failure"
                   /\ RolledBack(parser, parser')]_vars

\* A group whose first alternative consumed a token before it failed and
\* whose second alternative won from the position of begin_alt.
C28_SecondAfterRollback ==
    /\ events # <<>>
    /\ events[1].op = "alt"
    /\ Len(events[1].bodies[1]) = 2
    /\ Len(events[1].bodies[2]) = 1
    /\ parser.state = "OK"
    /\ Len(parser.tokens) = 2
    /\ parser.tokens[1].id # "WHITESPACE"
    /\ contains(events[1].bodies[1][1], parser.tokens[1]) # NoKind
    /\ contains(events[1].bodies[1][2], parser.tokens[2]) = NoKind
    /\ parser.pos = 1
    /\ Len(parser.output) = 1

\* A group entered at the end of the source text outside every optional
\* branch: the parser stops in end_alt.
C28_GroupAtEndOfInput ==
    /\ events # <<>>
    /\ events[1].op = "alt"
    /\ parser.tokens = <<>>
    /\ Dead(parser)


(***************************************************************************)
(* handle_errors called on its own: on every short source text, with       *)
(* expected-token records and unexpected-token records at any of its       *)
(* non-trivia tokens, with or without an error already pending for one of  *)
(* them, outside and inside an optional branch.  `events` is the log of    *)
(* the call, with the records the call found.                              *)
(***************************************************************************)

ErrAlphabet == {"RULE_KW", "IDENT", "WHITESPACE"}

\* The longest source text.
ErrLen == 2

\* The description lists of the records: the sets of tokens some expect
\* missed at a span, in the order of the misses.
ErrLists ==
    { descriptions(<<"PRIVATE_KW">>),
      descriptions(<<"RULE_KW", "IDENT">>),
      descriptions(<<"IDENT", "RULE_KW">>),
      descriptions(<<"PRIVATE_KW", "RULE_KW", "IDENT">>) }

\* The spans records are made for: those of the tokens that are not trivia.
RecordSpans(tokens) ==
    {tokens[i].span : i \in {k \in 1..Len(tokens) : ~is_trivia(tokens[k])}}

ErrInit ==
    /\ \E src \in SeqsUpTo(ErrAlphabet, ErrLen), depth \in 0..1 :
           LET fresh == NewParser(src, TRUE)
               spans == RecordSpans(fresh.tokens)
           IN \E E \in SUBSET spans, U \in SUBSET spans :
                  \E expected \in [E -> ErrLists],
                     pending \in {<<>>} \cup
                         {<<[span |-> s,
                             message |-> error_msg(descriptions(<<"L_BRACE">>),
                                                   source_text(fresh, s))]>> :
                              s \in spans} :
                      parser = [fresh EXCEPT
                                    !.state = "Failure",
                                    !.opt_depth = depth,
                                    !.expected_token_errors =
                                        IF E = {} THEN <<>> ELSE expected,
                                    !.unexpected_token_errors = U,
                                    !.pending_errors = pending]
    /\ whitespaces = TRUE
    /\ events = <<>>
    /\ NotLinting
    /\ NotComputing

\* p.handle_errors()
ErrHandle ==
    /\ events = <<>>
    /\ parser' = handle_errors(parser)
    /\ events' = <<[op |-> "handle_errors",
                    expected |-> parser.expected_token_errors,
                    unexpected |-> parser.unexpected_token_errors]>>
    /\ UNCHANGED <<whitespaces, lint_vars, math_vars>>

ErrNext == ErrHandle

SpecErr == ErrInit /\ [][ErrNext]_vars

\* The span of a non-empty set that no other span of the set starts behind.
Furthest(spans) ==
    CHOOSE s \in spans : \A t \in spans \ {s} : start(t) < start(s)

\* d1, d2, ... or dn
RECURSIVE OneOf(_)
OneOf(ds) ==
    IF Len(ds) = 1 THEN ds[1]
    ELSE IF Len(ds) = 2 THEN ds[1] \o " or " \o ds[2]
    ELSE ds[1] \o ", " \o OneOf(Tail(ds))

\* The spelling of the token at a span.
Found(p, at) ==
    BQ \o Text[p.tokens[CHOOSE i \in DOMAIN p.tokens :
                                   p.tokens[i].span = at].id] \o BQ

\* The error handle_errors is to generate from the records of p.
Arbitrated(p) ==
    LET E == DOMAIN p.expected_token_errors
        U == p.unexpected_token_errors
    IN IF U # {} /\ (E = {} \/ start(Furthest(U)) > start(Furthest(E)))
       THEN [span |-> Furthest(U),
             message |-> "unexpected " \o Found(p, Furthest(U))]
       ELSE [span |-> Furthest(E),
             message |-> "expecting "
                             \o OneOf(p.expected_token_errors[Furthest(E)])
                             \o ", found " \o Found(p, Furthest(E))]

\* C23: handle_errors at opt_depth 0 builds its message for the expected
\* span with the largest start, listing every description recorded for it
\* in the order of insertion, unless an unexpected span starts strictly
\* later, and then the message is "unexpected `X`" for that span; on equal
\* starts the expected record wins.  The message goes to pending_errors
\* unless an error is pending for the span, and both maps are drained.
C23_FurthestFailure ==
    [][(IsCall("handle_errors") /\ parser.opt_depth = 0
            /\ (DOMAIN parser.expected_token_errors # {}
                   \/ parser.unexpected_token_errors # {})) =>
           /\ ~Dead(parser')
           /\ DOMAIN parser'.expected_token_errors = {}
           /\ parser'.unexpected_token_errors = {}
           /\ parser'.pending_errors =
                  IF \E i \in 1..Len(parser.pending_errors) :
                         parser.pending_errors[i].span = Arbitrated(parser).span
                  THEN parser.pending_errors
                  ELSE Append(parser.pending_errors, Arbitrated(parser))]_vars

\* An expected record and an unexpected record at the furthest token, an
\* expected record with three descriptions, and the error generated from
\* it behind the one that was pending.
C23_TieGoesToExpected ==
    /\ events # <<>>
    /\ events[1].op = "handle_errors"
    /\ Len(parser.tokens) = 2
    /\ DOMAIN events[1].expected
           = {parser.tokens[1].span, parser.tokens[2].span}
    /\ events[1].unexpected = {parser.tokens[2].span}
    /\ Len(events[1].expected[parser.tokens[2].span]) = 3
    /\ Len(parser.pending_errors) = 2
    /\ parser.pending_errors[2].span = parser.tokens[2].span
    /\ parser.pending_errors[2].message
           = "expecting " \o BQ \o "private" \o BQ \o ", " \o BQ \o "rule"
                 \o BQ \o " or identifier, found " \o BQ \o "rule" \o BQ


(***************************************************************************)
(* The math module: abs and monte_carlo_pi.                                *)
(*                                                                         *)
(* An i64 is its 64 bits in two's complement, as four 16-bit limbs, the    *)
(* most significant first.  An f64 that holds a whole number below 2^53    *)
(* is exact; it is the number in base 10000, four limbs, the most          *)
(* significant first.                                                      *)
(***************************************************************************)

Limb == 65536

i64_MIN == <<32768, 0, 0, 0>>
i64_ZERO == <<0, 0, 0, 0>>

\* i64::is_negative: the sign bit.
is_negative(x) == x[1] >= 32768

\* The 64 bits of x + y, the carry out of bit 63 dropped.
wrapping_add(x, y) ==
    LET c4 == (x[4] + y[4]) \div Limb
        c3 == (x[3] + y[3] + c4) \div Limb
        c2 == (x[2] + y[2] + c3) \div Limb
    IN << (x[1] + y[1] + c2) % Limb, (x[2] + y[2] + c3) % Limb,
          (x[3] + y[3] + c4) % Limb, (x[4] + y[4]) % Limb >>

\* i64::wrapping_neg: every bit flipped, plus one.
wrapping_neg(x) ==
    wrapping_add([i \in 1..4 |-> Limb - 1 - x[i]], <<0, 0, 0, 1>>)

\* What a call returns: a value, or the panic that ends it.
Returns(value) == [panicked |-> FALSE, value |-> value]
Panics(message) == [panicked |-> TRUE, message |-> message]

\* The unary minus of an i64: -i64::MIN overflows; a build with overflow
\* checks panics, one without wraps around.
neg(x, overflow_checks) ==
    IF x = i64_MIN /\ overflow_checks
    THEN Panics("attempt to negate with overflow")
    ELSE Returns(wrapping_neg(x))

\* math.abs: x.abs(), which is -x for a negative x.
abs(x, overflow_checks) ==
    IF is_negative(x) THEN neg(x, overflow_checks) ELSE Returns(x)

Base == 10000

\* The f64 of a decimal literal: its digits, grouped by four from the
\* right.
f64_literal(digits) ==
    LET n == Len(digits)
        digit(k) == IF k >= 1 THEN digits[k] ELSE 0
    IN [i \in 1..4 |->
           LET last == n - 4 * (4 - i)
           IN digit(last - 3) * 1000 + digit(last - 2) * 100
                  + digit(last - 1) * 10 + digit(last)]

\* f64::pow(2) of a whole number below 2^24.
pow2(n) ==
    LET a == n \div Base
        b == n % Base
        t1 == 2 * a * b + (b * b) \div Base
        t2 == a * a + t1 \div Base
    IN << t2 \div Base, t2 % Base, t1 % Base, (b * b) % Base >>

\* The sum of two f64 that hold whole numbers.
f64_add(x, y) ==
    LET c4 == (x[4] + y[4]) \div Base
        c3 == (x[3] + y[3] + c4) \div Base
        c2 == (x[2] + y[2] + c3) \div Base
    IN << x[1] + y[1] + c2, (x[2] + y[2] + c3) % Base,
          (x[3] + y[3] + c4) % Base, (x[4] + y[4]) % Base >>

\* x < y
f64_lt(x, y) ==
    \E i \in 1..4 : x[i] < y[i] /\ \A k \in 1..(i - 1) : x[k] = y[k]

\* ((256 ^ 3)) ^ 2 in the place of the constant of monte_carlo_pi.
INCIRC_of_256_cubed == pow2(256 * 256 * 256)

\* const INCIRC: f64 = 281474943156225.0_f64
INCIRC == f64_literal(<<2, 8, 1, 4, 7, 4, 9, 4, 3, 1, 5, 6, 2, 2, 5>>)

\* data.chunks_exact(6): the whole chunks of six bytes; the rest is left.
chunks_exact(data) ==
    [i \in 1..(Len(data) \div 6) |-> SubSeq(data, 6 * i - 5, 6 * i)]

\* mx and my of a chunk: its first three bytes and its last three, each a
\* number in base 256.
coordinate(chunk, from) ==
    (chunk[from] * 256 + chunk[from + 1]) * 256 + chunk[from + 2]

\* mx.pow(2) + my.pow(2) < INCIRC
in_circle(chunk) ==
    f64_lt(f64_add(pow2(coordinate(chunk, 1)), pow2(coordinate(chunk, 4))),
           INCIRC)

\* monte_carlo_pi: None on less than six bytes; otherwise the counters the
\* estimate mpi = 4 * inmont / mcount is made of (the f64 returned is
\* |mpi - PI| / PI).
monte_carlo_pi(data) ==
    LET chunks == chunks_exact(data)
        inmont == Cardinality({i \in DOMAIN chunks : in_circle(chunks[i])})
        mcount == Len(chunks)
    IN IF mcount = 0 THEN [type |-> "None"]
       ELSE [type |-> "Some", inmont |-> inmont, mcount |-> mcount]

\* The limbs math.abs is called with: every i64 made of them.
AbsLimbs == {0, 1, 32767, 32768, 65535}

\* The coordinates of the points, three bytes each, and the bytes left
\* behind the last whole chunk.
Coordinates ==
    {<<0, 0, 0>>, <<181, 4, 243>>, <<255, 255, 254>>, <<255, 255, 255>>}
Chunks == {x \o y : x \in Coordinates, y \in Coordinates}
Rests == {<<>>, <<255>>}

\* The most chunks of one call.
MaxChunks == 2

RECURSIVE ChunkLists(_)
ChunkLists(n) ==
    IF n = 0 THEN {<<>>}
    ELSE ChunkLists(n - 1)
             \cup {c \o d : c \in Chunks,
                             d \in {l \in ChunkLists(n - 1) :
                                        Len(l) = 6 * (n - 1)}}

MathInit ==
    /\ parser = NewParser(<<>>, TRUE)
    /\ whitespaces = TRUE
    /\ events = <<>>
    /\ NotLinting
    /\ NotComputing

\* math.abs(x)
MathAbs ==
    /\ math = NoMath
    /\ \E x \in [1..4 -> AbsLimbs], overflow_checks \in BOOLEAN :
           math' = [op |-> "abs", x |-> x, result |-> abs(x, overflow_checks)]
    /\ UNCHANGED <<parser_vars, lint_vars>>

\* math.monte_carlo_pi(data)
MathMonteCarloPi ==
    /\ math = NoMath
    /\ \E chunks \in ChunkLists(MaxChunks), rest \in Rests :
           math' = [op |-> "monte_carlo_pi", data |-> chunks \o rest,
                    result |-> monte_carlo_pi(chunks \o rest)]
    /\ UNCHANGED <<parser_vars, lint_vars>>

MathNext == MathAbs \/ MathMonteCarloPi

SpecMath == MathInit /\ [][MathNext]_vars

\* C37: math.abs(x) returns the absolute value of x, which is not
\* negative, for every i64, and neither overflows nor panics: the result
\* is x or the number that adds up to zero with x.
C37_AbsNotNegative ==
    math.op = "abs" =>
        /\ ~math.result.panicked
        /\ ~is_negative(math.result.value)
        /\ \/ math.result.value = math.x
           \/ wrapping_add(math.result.value, math.x) = i64_ZERO

\* math.abs(-1) is 1.
C37_AbsOfMinusOne ==
    /\ math.op = "abs"
    /\ math.x = <<65535, 65535, 65535, 65535>>
    /\ math.result = Returns(<<0, 0, 0, 1>>)

\* C38: the constant INCIRC of monte_carlo_pi, 281474943156225, is
\* ((256^3) - 1)^2, and a point counts as inside when the sum of the
\* squares of its coordinates is below it.
C38_IncircIsSquare ==
    /\ INCIRC = pow2(256 * 256 * 256 - 1)
    /\ (math.op = "monte_carlo_pi" /\ math.result.type = "Some") =>
           LET chunks == chunks_exact(math.data)
               inside(c) ==
                   f64_lt(f64_add(pow2(coordinate(c, 1)),
                                  pow2(coordinate(c, 4))),
                          pow2(256 * 256 * 256 - 1))
           IN math.result.inmont
                  = Cardinality({i \in DOMAIN chunks : inside(chunks[i])})

\* A point on the circle, not counted, and a point next to it, counted.
C38_OnTheCircle ==
    /\ math.op = "monte_carlo_pi"
    /\ math.data = <<255, 255, 255, 0, 0, 0, 255, 255, 254, 0, 0, 0>>
    /\ math.result = [type |-> "Some", inmont |-> 1, mcount |-> 2]


\* C36: Metadata.check returns at most one diagnostic for a rule; with
\* several entries named `identifier` it is for the first of them, in the
\* order of the source, that fails the predicate; an entry that fails the
\* predicate yields invalid_metadata also when `required` is set; and
\* missing_metadata is returned only when no entry has the identifier.
C36_OneDiagnostic ==
    IsLinted("Metadata") =>
        /\ linted.result.type \in {"Ok", "Warn", "Err"}
        /\ linted.result.type # "Ok" =>
               /\ linted.result.type = Severity
               /\ Reported("invalid_metadata") \/ Reported("missing_metadata")
        /\ RejectedEntries # {} =>
               /\ Reported("invalid_metadata")
               /\ \E i \in RejectedEntries :
                      /\ \A j \in RejectedEntries : i <= j
                      /\ linted.result.report.span
                             = flatten(rule.meta)[i].value.span
        /\ Reported("missing_metadata") =>
               /\ OwnEntries = {}
               /\ linted.linter.required
        /\ (RejectedEntries = {} /\ OwnEntries # {}) =>
               linted.result.type = "Ok"

\* A required entry that is there twice: the first passes the validator,
\* the second does not, and the one diagnostic is invalid_metadata at the
\* value of the second.
C36_RequiredAndRejected ==
    /\ IsLinted("Metadata")
    /\ linted.linter.required
    /\ OwnEntries = {1, 2}
    /\ RejectedEntries = {2}
    /\ Reported("invalid_metadata")
    /\ linted.result.report.span = flatten(rule.meta)[2].value.span


\* C31: every entry of the failure cache is a genuine failure: its rule was
\* run from its token index, entered in the OK state, during the top-level
\* item that is being parsed, and failed; `cached` is never entered in
\* Failure; and the cache answers only where the rule, run again, fails
\* again.
C31_CacheGenuine == parser.cache_audit = {}

\* The cache took an entry and answered a call.
C31_EntryMadeAndUsed ==
    /\ parser.cache_inserts > 0
    /\ parser.cache_hits > 0
    /\ ~Dead(parser)


\* The stream has a node that is tagged as an error.
ErrorTagged(evs) ==
    \E i \in 1..Len(evs) :
        \/ evs[i].type = "EndWithError"
        \/ evs[i].type = "Begin" /\ evs[i].kind = "ERROR"

\* C32: no syntax error is silent: a stream with an error-tagged node (an
\* EndWithError or a Begin(ERROR)) has an Error event too, also when the
\* end of the input cuts a rule declaration off.
C32_NoSilentError ==
    (Ended /\ ErrorTagged(events)) => Errors(events) # <<>>


\* C33: an Error event that was appended to the output is never removed:
\* no restore_bookmark truncates the output to a length in front of it.
C33_ErrorsStay == parser.errors_dropped = 0

\* A restore_bookmark that ran with an Error event in the output, in front
\* of the bookmark.
C33_RestoredBehindError ==
    /\ parser.errors_kept > 0
    /\ parser.errors_dropped = 0


\* C39: every bookmark that opt, not, n_or_more and begin_alt create is
\* removed exactly once and is never restored after it was removed, and
\* none is left when the parsing of a top-level item has finished.
C39_BookmarkDiscipline ==
    /\ parser.bookmark_audit = {}
    /\ ~Dead(parser) =>
           /\ parser.bookmarks = <<>>
           /\ parser.bookmarks_removed = parser.bookmark_count

\* An item was parsed with bookmarks, some of them restored.
C39_BookmarksUsed ==
    /\ ~Dead(parser)
    /\ parser.bookmark_count > 2
    /\ parser.restores > 0
    /\ parser.bookmarks = <<>>

\* C40: opt_depth and not_depth never underflow; opt, not, n_or_more and
\* Alt::alt return with both counters as they were on entry; and both are
\* 0 whenever next() returns.
C40_DepthsBalanced ==
    /\ parser.depth_audit = {}
    /\ ~Dead(parser) => parser.opt_depth = 0 /\ parser.not_depth = 0

\* A rule with `of` in its condition was parsed without an error, through
\* optional branches, alternatives, loops and the not of quantifier.
C40_BranchesLeft ==
    /\ Ended
    /\ ErrorFree(events)
    /\ \E i \in 1..Len(events) :
           events[i].type = "Token" /\ events[i].kind = "OF_KW"
    /\ parser.bookmark_count > 2
    /\ parser.opt_depth = 0
    /\ parser.not_depth = 0


(***************************************************************************)
(* The methods called on a parser that is in Failure: an expect that       *)
(* misses puts the parser there, at the start of a rule's body or one      *)
(* optional branch deep, and any of the methods is called next.  `events`  *)
(* is the log of the calls.                                                *)
(***************************************************************************)

\* The most calls made on one parser.
FailCalls == 2

\* A call of the method `op` that returns q.
FailCall(op, q) ==
    /\ parser' = q
    /\ events' = Append(events, [op |-> op])
    /\ UNCHANGED <<whitespaces, lint_vars, math_vars>>

\* p.expect(set) that misses, or finds no token.
FailMiss ==
    /\ parser.state = "OK"
    /\ events = <<>>
    /\ \E set \in OpsSets :
           /\ expect(parser, set).state = "Failure"
           /\ FailCall("miss", expect(parser, set))

\* p.expect(set), in Failure
FailExpect ==
    /\ ~Dead(parser)
    /\ parser.state = "Failure"
    /\ Len(events) < FailCalls
    /\ \E set \in OpsSets :
           FailCall("expect", expect(parser, set))

\* p.opt(|p| p.expect(set)), in Failure
FailOpt ==
    /\ ~Dead(parser)
    /\ parser.state = "Failure"
    /\ Len(events) < FailCalls
    /\ \E set \in OpsSets :
           FailCall("opt", opt(parser, LAMBDA q: expect(q, set)))

\* p.not(|p| p.expect(set)), in Failure
FailNot ==
    /\ ~Dead(parser)
    /\ parser.state = "Failure"
    /\ Len(events) < FailCalls
    /\ \E set \in OpsSets :
           FailCall("not", not(parser, LAMBDA q: expect(q, set)))

\* p.if_next(set, |p| p.expect(set)), in Failure
FailIfNext ==
    /\ ~Dead(parser)
    /\ parser.state = "Failure"
    /\ Len(events) < FailCalls
    /\ \E set \in OpsSets :
           FailCall("if_next", if_next(parser, set, LAMBDA q: expect(q, set)))

\* p.cond(set, |p| p.expect(set)), in Failure
FailCond ==
    /\ ~Dead(parser)
    /\ parser.state = "Failure"
    /\ Len(events) < FailCalls
    /\ \E set \in OpsSets :
           FailCall("cond", cond(parser, set, LAMBDA q: expect(q, set)))

\* p.zero_or_more(|p| p.expect(set)), in Failure
FailZeroOrMore ==
    /\ ~Dead(parser)
    /\ parser.state = "Failure"
    /\ Len(events) < FailCalls
    /\ \E set \in OpsSets :
           FailCall("zero_or_more", zero_or_more(parser, LAMBDA q: expect(q, set)))

\* p.one_or_more(|p| p.expect(set)), in Failure
FailOneOrMore ==
    /\ ~Dead(parser)
    /\ parser.state = "Failure"
    /\ Len(events) < FailCalls
    /\ \E set \in OpsSets :
           FailCall("one_or_more", one_or_more(parser, LAMBDA q: expect(q, set)))

\* p.then(|p| p.expect(set)), in Failure
FailThen ==
    /\ ~Dead(parser)
    /\ parser.state = "Failure"
    /\ Len(events) < FailCalls
    /\ \E set \in OpsSets :
           FailCall("then", then(parser, LAMBDA q: expect(q, set)))

\* p.begin_alt().alt(|p| p.expect(set)).end_alt(), in Failure
FailAlt ==
    /\ ~Dead(parser)
    /\ parser.state = "Failure"
    /\ Len(events) < FailCalls
    /\ \E set \in OpsSets :
           FailCall("alt", end_alt(alt(begin_alt(parser), LAMBDA q: expect(q, set))))

\* p.trivia(), in Failure
FailTrivia ==
    /\ ~Dead(parser)
    /\ parser.state = "Failure"
    /\ Len(events) < FailCalls
    /\ FailCall("trivia", trivia(parser))

\* p.enter_hex_pattern_mode(), in Failure
FailEnterHexPatternMode ==
    /\ ~Dead(parser)
    /\ parser.state = "Failure"
    /\ Len(events) < FailCalls
    /\ FailCall("enter_hex_pattern_mode", enter_hex_pattern_mode(parser))

\* p.enter_hex_jump_mode(), in Failure
FailEnterHexJumpMode ==
    /\ ~Dead(parser)
    /\ parser.state = "Failure"
    /\ Len(events) < FailCalls
    /\ FailCall("enter_hex_jump_mode", enter_hex_jump_mode(parser))

FailNext ==
    \/ FailMiss
    \/ FailExpect
    \/ FailOpt
    \/ FailNot
    \/ FailIfNext
    \/ FailCond
    \/ FailZeroOrMore
    \/ FailOneOrMore
    \/ FailThen
    \/ FailAlt
    \/ FailTrivia
    \/ FailEnterHexPatternMode
    \/ FailEnterHexJumpMode

SpecFail == OpsInit /\ [][FailNext]_vars

\* The call has consumed no token, has left the tokenizer in its mode and
\* the errors as they were, and the parser is still in Failure.
FailureFrame ==
    /\ ~Dead(parser')
    /\ parser'.state = "Failure"
    /\ parser'.pos = parser.pos
    /\ parser'.mode = parser.mode
    /\ parser'.output = parser.output
    /\ parser'.pending_errors = parser.pending_errors
    /\ parser'.expected_token_errors = parser.expected_token_errors
    /\ parser'.unexpected_token_errors = parser.unexpected_token_errors

\* C34: in Failure, expect, opt, not, if_next, cond, zero_or_more,
\* one_or_more, then, trivia, enter_hex_pattern_mode, enter_hex_jump_mode
\* and a whole begin_alt ... end_alt group consume no token, do not switch
\* the tokenizer mode and leave pending_errors, expected_token_errors and
\* unexpected_token_errors as they are; the state stays Failure.
C34_FailureFrame ==
    [][(parser.state = "Failure" /\ events' # events) => FailureFrame]_vars

\* C34 for every method except the group of alternatives.
C34_FailureFrameOutsideAlt ==
    [][(parser.state = "Failure" /\ events' # events /\ ~IsCall("alt"))
           => FailureFrame]_vars

\* A group of alternatives entered in Failure outside every optional
\* branch, after an expect that missed a token: the parser stops in
\* end_alt.
C34_GroupInFailure ==
    /\ Len(events) = 2
    /\ events[2].op = "alt"
    /\ parser.tokens # <<>>
    /\ parser.opt_depth = 0
    /\ Dead(parser)


(***************************************************************************)
(* A token that starts no top-level item.                                  *)
(***************************************************************************)

\* The tokens a top-level item starts with (the match of top_level_item).
ItemStarts == {"IMPORT_KW", "GLOBAL_KW", "PRIVATE_KW", "RULE_KW"}

\* The call of next() that is about to be made parses a top-level item
\* whose first token starts neither an import statement nor a rule.
StrayAhead ==
    /\ whitespaces
    /\ parser.state = "OK"
    /\ parser.output = <<>>
    /\ ~Dead(parser)
    /\ peek(trivia(parser)) # NoToken
    /\ peek(trivia(parser)).id \notin ItemStarts

\* C35: a top-level token that is not import, global, private or rule
\* yields exactly one Error event ("expecting import statement or rule
\* definition, found ..."), immediately followed by an ERROR node that
\* holds exactly that token; the parser is then in front of the next
\* token, ready for a new top-level item.
C35_StrayToken ==
    [][(StrayAhead /\ events' # events) =>
           LET token == peek(trivia(parser))
               n == trivia(parser).pos - parser.pos
               produced == <<events'[Len(events')]>> \o parser'.output
           IN /\ ~Dead(parser')
              /\ Len(produced) = n + 4
              /\ \A i \in 1..n : produced[i].type = "Token"
              /\ produced[n + 1] =
                     ErrorEvent("expecting import statement or rule "
                                    \o "definition, found "
                                    \o description(token.id),
                                token.span)
              /\ produced[n + 2] = Begin("ERROR")
              /\ produced[n + 3] = TokenEvent(token.id, token.span)
              /\ produced[n + 4] = End("ERROR")
              /\ parser'.pos = trivia(parser).pos + 1
              /\ parser'.state = "OK"
              /\ parser'.pending_errors = <<>>]_vars

\* A stray token behind a whitespace, with a rule declaration after it.
C35_StrayThenRule ==
    /\ Ended
    /\ whitespaces
    /\ \E i \in 2..Len(events) :
           /\ events[i - 1].type = "Token"
           /\ events[i - 1].kind = "WHITESPACE"
           /\ events[i].type = "Error"
           /\ i + 4 <= Len(events)
           /\ events[i + 1] = Begin("ERROR")
           /\ events[i + 3] = End("ERROR")
           /\ events[i + 4].type = "Begin"
           /\ events[i + 4].kind \in {"RULE_DECL", "ERROR"}
           /\ events[i + 5].type = "Token"
           /\ events[i + 5].kind = "RULE_KW"

====
